---- MODULE Spec2Model ----
(***************************************************************************)
(* Model of the streaming question-generation route (POST handler of the   *)
(* NDJSON generation endpoint) : validator, sanitizer, fingerprint, and    *)
(* the orchestration of the primary stream, trailing flush, bulk top-up    *)
(* rounds, single-item recovery, synthetic filler and the in-route         *)
(* non-streaming fallback.                                                 *)
(*                                                                         *)
(* Strings are sequences of one-character strings, so that trim, the       *)
(* /\bblank\b/gi replacement, whitespace collapsing, lower-casing and      *)
(* slicing are computed character by character as the code does.           *)
(* A JavaScript value is a record [k, s]: k is its typeof-like kind and s  *)
(* its characters when it is a string.                                     *)
(*                                                                         *)
(* One action is one resumption of the async start() callback: everything  *)
(* the handler does between two awaits, with the upstream model's answer   *)
(* (a chunk, a text, no stream, or a throw) chosen nondeterministically.   *)
(* The consumer is taken to read the response to its end, so enqueue on    *)
(* the controller never throws.                                            *)
(*                                                                         *)
(* Spec is the streaming session. The other specifications apply one part  *)
(* of the program to bounded inputs: SpecValidator (isValidQuestion),      *)
(* SpecSanitizer (sanitizeQuestion), SpecFramer (the framing loop over a   *)
(* text cut into chunks), SpecLoops (one run of a tier's candidate loop),  *)
(* SpecFiller (the synthetic filler) and SpecRequest (both POST handlers   *)
(* up to their first upstream call, and the response of the non-streaming  *)
(* route). SpecPair is two sessions whose steps interleave at the awaits.  *)
(* SpecClient is the practice page reading one response of the route.     *)
(* A count is a number record [k, n, d], the JavaScript number n/d.        *)
(***************************************************************************)
EXTENDS Integers, Sequences, FiniteSets, TLC

\* ------------------------------------------------------------------ bounds
\* longest stem enumerated for the validator
MaxStemLen == 6

\* ------------------------------------------------------- program constants
\* q.question.trim().length < 5
MinStemLen == 5
\* q.multipleChoiceOptions.length !== 4
NumOptions == 4
\* .slice(0, 140)
FingerprintLen == 140

\* ---------------------------------------------------------------- strings
LowerAlpha == <<"a","b","c","d","e","f","g","h","i","j","k","l","m",
                "n","o","p","q","r","s","t","u","v","w","x","y","z">>
UpperAlpha == <<"A","B","C","D","E","F","G","H","I","J","K","L","M",
                "N","O","P","Q","R","S","T","U","V","W","X","Y","Z">>
Digits == {"0","1","2","3","4","5","6","7","8","9"}

\* String.prototype.toLowerCase on one character
toLowerCase(c) ==
  IF \E i \in 1..26 : UpperAlpha[i] = c
  THEN LowerAlpha[CHOOSE i \in 1..26 : UpperAlpha[i] = c]
  ELSE c

\* \s of a regular expression, and the characters trim() strips
IsSpace(c) == c \in {" ", "\t", "\n", "\r"}

\* \w of a regular expression
IsWordChar(c) ==
  \/ \E i \in 1..26 : LowerAlpha[i] = c \/ UpperAlpha[i] = c
  \/ c \in Digits
  \/ c = "_"

RECURSIVE TrimStart(_)
TrimStart(s) ==
  IF s = <<>> THEN <<>>
  ELSE IF IsSpace(Head(s)) THEN TrimStart(Tail(s)) ELSE s

RECURSIVE TrimEnd(_)
TrimEnd(s) ==
  IF s = <<>> THEN <<>>
  ELSE IF IsSpace(s[Len(s)]) THEN TrimEnd(SubSeq(s, 1, Len(s) - 1)) ELSE s

\* String.prototype.trim
trim(s) == TrimEnd(TrimStart(s))

BlankWord == <<"b","l","a","n","k">>

\* does /\bblank\b/i match at position i of s
BlankAt(s, i) ==
  /\ i + 4 <= Len(s)
  /\ \A j \in 0..4 : toLowerCase(s[i + j]) = BlankWord[j + 1]
  /\ (i = 1 \/ ~IsWordChar(s[i - 1]))
  /\ (i + 5 > Len(s) \/ ~IsWordChar(s[i + 5]))

\* s.replace(/\bblank\b/gi, '') scanning from position i
RECURSIVE RemoveBlankFrom(_, _)
RemoveBlankFrom(s, i) ==
  IF i > Len(s) THEN <<>>
  ELSE IF BlankAt(s, i) THEN RemoveBlankFrom(s, i + 5)
  ELSE <<s[i]>> \o RemoveBlankFrom(s, i + 1)

RemoveBlank(s) == RemoveBlankFrom(s, 1)

\* first position at or after i that holds no whitespace
RECURSIVE SpaceRunEnd(_, _)
SpaceRunEnd(s, i) ==
  IF i > Len(s) THEN i
  ELSE IF IsSpace(s[i]) THEN SpaceRunEnd(s, i + 1) ELSE i

\* s.replace(/\s{2,}/g, ' ') scanning from position i
RECURSIVE CollapseFrom(_, _)
CollapseFrom(s, i) ==
  IF i > Len(s) THEN <<>>
  ELSE IF IsSpace(s[i]) /\ SpaceRunEnd(s, i) - i >= 2
       THEN <<" ">> \o CollapseFrom(s, SpaceRunEnd(s, i))
       ELSE <<s[i]>> \o CollapseFrom(s, i + 1)

CollapseSpaces(s) == CollapseFrom(s, 1)

\* ------------------------------------------------------- JavaScript values
Str(s) == [k |-> "str", s |-> s]
Num == [k |-> "num", s |-> <<>>]
Null == [k |-> "null", s |-> <<>>]
Undef == [k |-> "undef", s |-> <<>>]

IsString(v) == v.k = "str"

\* an array value: k = "arr" and its items; any other kind has no items
Arr(items) == [k |-> "arr", items |-> items]
NoArr(kind) == [k |-> kind, items |-> <<>>]

\* an explanations value: k = "obj" and its four keys; {} has them undefined
Expl(a, b, c, d) == [k |-> "obj", A |-> a, B |-> b, C |-> c, D |-> d]
NoExpl(kind) == [k |-> kind, A |-> Undef, B |-> Undef, C |-> Undef, D |-> Undef]

Labels == <<"A", "B", "C", "D">>

ExplOf(ie, label) ==
  CASE label = "A" -> ie.A
    [] label = "B" -> ie.B
    [] label = "C" -> ie.C
    [] OTHER -> ie.D

\* a parsed candidate: k is the kind of the parsed value itself
Obj(q, o, ca, ie, ce) ==
  [k |-> "obj", question |-> q, multipleChoiceOptions |-> o, correctAnswer |-> ca,
   incorrectExplanations |-> ie, correctExplanation |-> ce]

\* a parsed value that is no object literal (null, a number, a string, an array)
NonObj(kind) ==
  [k |-> kind, question |-> Undef, multipleChoiceOptions |-> NoArr("undef"),
   correctAnswer |-> Undef, incorrectExplanations |-> NoExpl("undef"),
   correctExplanation |-> Undef]

\* -------------------------------------------------------------- validator
\* const ie = q.incorrectExplanations || {}
ExplOrEmpty(ie) ==
  IF ie.k \in {"undef", "null"} THEN NoExpl("obj") ELSE ie

isValidQuestionBadStem(q) ==
  IF q.k \in {"null", "undef"} \/ q.k \notin {"obj", "arr"} THEN FALSE
  ELSE IF ~IsString(q.question) \/ Len(trim(q.question.s)) <= MinStemLen THEN FALSE
  ELSE IF q.multipleChoiceOptions.k # "arr"
          \/ Len(q.multipleChoiceOptions.items) # NumOptions THEN FALSE
  ELSE IF ~(\A i \in 1..Len(q.multipleChoiceOptions.items) :
              /\ IsString(q.multipleChoiceOptions.items[i])
              /\ Len(trim(q.multipleChoiceOptions.items[i].s)) > 0) THEN FALSE
  ELSE IF ~(IsString(q.correctAnswer)
            /\ \E i \in 1..4 : q.correctAnswer.s = <<Labels[i]>>) THEN FALSE
  ELSE LET ie == ExplOrEmpty(q.incorrectExplanations) IN
       IF ie.k \notin {"obj", "arr"} THEN FALSE
       ELSE IF \E i \in 1..4 : \/ ~IsString(ExplOf(ie, Labels[i]))
                               \/ Len(trim(ExplOf(ie, Labels[i]).s)) = 0 THEN FALSE
       ELSE IF ~IsString(q.correctExplanation)
               \/ Len(trim(q.correctExplanation.s)) = 0 THEN FALSE
       ELSE TRUE

isValidQuestion(q) ==
  IF q.k \in {"null", "undef"} \/ q.k \notin {"obj", "arr"} THEN FALSE
  ELSE IF ~IsString(q.question) \/ Len(trim(q.question.s)) < MinStemLen THEN FALSE
  ELSE IF q.multipleChoiceOptions.k # "arr"
          \/ Len(q.multipleChoiceOptions.items) # NumOptions THEN FALSE
  ELSE IF ~(\A i \in 1..Len(q.multipleChoiceOptions.items) :
              /\ IsString(q.multipleChoiceOptions.items[i])
              /\ Len(trim(q.multipleChoiceOptions.items[i].s)) > 0) THEN FALSE
  ELSE IF ~(IsString(q.correctAnswer)
            /\ \E i \in 1..4 : q.correctAnswer.s = <<Labels[i]>>) THEN FALSE
  ELSE LET ie == ExplOrEmpty(q.incorrectExplanations) IN
       IF ie.k \notin {"obj", "arr"} THEN FALSE
       ELSE IF \E i \in 1..4 : \/ ~IsString(ExplOf(ie, Labels[i]))
                               \/ Len(trim(ExplOf(ie, Labels[i]).s)) = 0 THEN FALSE
       ELSE IF ~IsString(q.correctExplanation)
               \/ Len(trim(q.correctExplanation.s)) = 0 THEN FALSE
       ELSE TRUE

\* -------------------------------------------------------------- sanitizer
\* const clean = (s) => typeof s === 'string' ? s.replace(..).replace(..).trim() : s
cleanCollapseFirst(v) ==
  IF IsString(v) THEN Str(trim(RemoveBlank(CollapseSpaces(v.s)))) ELSE v

clean(v) ==
  IF IsString(v) THEN Str(trim(CollapseSpaces(RemoveBlank(v.s)))) ELSE v

sanitizeQuestion(q) ==
  [q EXCEPT !.question = clean(q.question),
            !.multipleChoiceOptions =
               IF q.multipleChoiceOptions.k = "arr"
               THEN Arr([i \in 1..Len(q.multipleChoiceOptions.items) |->
                           clean(q.multipleChoiceOptions.items[i])])
               ELSE q.multipleChoiceOptions]

\* ------------------------------------------------------------ fingerprint
\* const normalize = (s) => s.toLowerCase().replace(/\s+/g, ' ').slice(0, 140)
RECURSIVE CollapseAllFrom(_, _)
CollapseAllFrom(s, i) ==
  IF i > Len(s) THEN <<>>
  ELSE IF IsSpace(s[i])
       THEN <<" ">> \o CollapseAllFrom(s, SpaceRunEnd(s, i))
       ELSE <<s[i]>> \o CollapseAllFrom(s, i + 1)

normalize(s) ==
  LET low == [i \in 1..Len(s) |-> toLowerCase(s[i])]
      col == CollapseAllFrom(low, 1)
  IN  SubSeq(col, 1, IF Len(col) < FingerprintLen THEN Len(col) ELSE FingerprintLen)

\* ------------------------------------------------------ synthetic filler
SynStemPrefix ==
  <<"S","y","n","t","h","e","t","i","c"," ","r","e","c","o","v","e","r",
  "y"," ","q","u","e","s","t","i","o","n"," ">>
SynStemFor ==
  <<" ","f","o","r"," ">>
SynStemSuffix ==
  <<":"," ","C","h","o","o","s","e"," ","t","h","e"," ","b","e","s","t",
  " ","o","p","t","i","o","n",".">>
SynOptA ==
  <<"A","."," ","C","o","n","c","e","p","t","u","a","l"," ","d","i","s",
  "t","r","a","c","t","o","r">>
SynOptB ==
  <<"B","."," ","A","n","o","t","h","e","r"," ","d","i","s","t","r","a",
  "c","t","o","r">>
SynOptC ==
  <<"C","."," ","C","o","r","r","e","c","t"," ","a","n","s","w","e",
  "r">>
SynOptD ==
  <<"D","."," ","P","l","a","u","s","i","b","l","e"," ","b","u","t"," ",
  "w","r","o","n","g">>
SynExplA ==
  <<"A"," ","d","o","e","s"," ","n","o","t"," ","a","d","d","r","e","s",
  "s"," ","t","h","e"," ","c","o","r","e"," ","r","e","q","u","i","r",
  "e","m","e","n","t",".">>
SynExplB ==
  <<"B"," ","i","s"," ","i","r","r","e","l","e","v","a","n","t"," ","t",
  "o"," ","t","h","e"," ","t","o","p","i","c"," ","f","o","c","u","s",
  ".">>
SynExplC ==
  <<"C"," ","b","e","s","t"," ","f","i","t","s"," ","t","h","e"," ","t",
  "o","p","i","c"," ","c","o","n","t","e","x","t",".">>
SynExplD ==
  <<"D"," ","i","n","t","r","o","d","u","c","e","s"," ","a","n"," ","u",
  "n","s","u","p","p","o","r","t","e","d"," ","i","d","e","a",".">>
SynCorrect ==
  <<"C"," ","d","i","r","e","c","t","l","y"," ","s","a","t","i","s","f",
  "i","e","s"," ","t","h","e"," ","c","o","n","s","t","r","a","i","n",
  "t","s"," ","o","f"," ","t","h","e"," ","t","o","p","i","c"," ","w",
  "h","i","l","e"," ","o","t","h","e","r","s"," ","d","o"," ","n","o",
  "t",".">>

DigitChars == <<"0","1","2","3","4","5","6","7","8","9">>

\* the decimal digits of an integer in 0..99, as a template literal prints it
\* (a slot number never exceeds the cap of 10)
DecimalString(n) ==
  IF n < 10 THEN <<DigitChars[n + 1]>>
  ELSE <<DigitChars[(n \div 10) + 1], DigitChars[(n % 10) + 1]>>

syntheticNoSlot(n, top) ==
  Obj(Str(SynStemPrefix \o SynStemFor \o top \o SynStemSuffix),
      Arr(<<Str(SynOptA), Str(SynOptB), Str(SynOptC), Str(SynOptD)>>),
      Str(<<"C">>),
      Expl(Str(SynExplA), Str(SynExplB), Str(SynExplC), Str(SynExplD)),
      Str(SynCorrect))

\* the synthetic unit built for slot n (n is emitted after its increment)
synthetic(n, top) ==
  Obj(Str(SynStemPrefix \o DecimalString(n) \o SynStemFor \o top \o SynStemSuffix),
      Arr(<<Str(SynOptA), Str(SynOptB), Str(SynOptC), Str(SynOptD)>>),
      Str(<<"C">>),
      Expl(Str(SynExplA), Str(SynExplB), Str(SynExplC), Str(SynExplD)),
      Str(SynCorrect))

\* ------------------------------------------- what the upstream model sends
\* The text the model returns is a sequence of symbols: "\n" and " " are the
\* characters themselves; every other symbol stands for a piece of JSON text.
\*   "1"      a well-formed unit with stem "abcde"
\*   "d"      a well-formed unit with stem "ABCDE" (same fingerprint as "1")
\*   "{" "}"  the two halves of a well-formed unit with stem "fghij"
\*   "k"      a unit that passes the validator and has the option "blank"
\*   "3"      an object with only three options
\*   "x"      text that is no JSON
\*   "F"      a markdown code fence (three backticks), "j" the word json after it
GoodOptions == Arr(<<Str(<<"w">>), Str(<<"x">>), Str(<<"y">>), Str(<<"z">>)>>)
GoodExpl == Expl(Str(<<"p">>), Str(<<"q">>), Str(<<"r">>), Str(<<"s">>))
Unit1 ==
  Obj(Str(<<"a","b","c","d","e">>), GoodOptions, Str(<<"A">>), GoodExpl, Str(<<"t">>))
Unit1Dup ==
  Obj(Str(<<"A","B","C","D","E">>), GoodOptions, Str(<<"B">>), GoodExpl, Str(<<"t">>))
Unit2 ==
  Obj(Str(<<"f","g","h","i","j">>), GoodOptions, Str(<<"C">>), GoodExpl, Str(<<"t">>))
UnitBlankOption ==
  Obj(Str(<<"k","l","m","n","o">>),
      Arr(<<Str(<<"B","l","a","n","k">>), Str(<<"x">>), Str(<<"y">>), Str(<<"z">>)>>),
      Str(<<"D">>), GoodExpl, Str(<<"t">>))
ThreeOptions ==
  Obj(Str(<<"p","q","r","s","t">>),
      Arr(<<Str(<<"w">>), Str(<<"x">>), Str(<<"y">>)>>),
      Str(<<"A">>), GoodExpl, Str(<<"t">>))

NotSpace(c) == ~IsSpace(c)

\* JSON.parse: whitespace around and between tokens is skipped; a text that is
\* not exactly one JSON value throws (ok = FALSE)
JSONparse(t) ==
  LET u == SelectSeq(t, NotSpace) IN
  CASE u = <<"1">> -> [ok |-> TRUE, v |-> Unit1]
    [] u = <<"d">> -> [ok |-> TRUE, v |-> Unit1Dup]
    [] u = <<"{", "}">> -> [ok |-> TRUE, v |-> Unit2]
    [] u = <<"k">> -> [ok |-> TRUE, v |-> UnitBlankOption]
    [] u = <<"3">> -> [ok |-> TRUE, v |-> ThreeOptions]
    [] OTHER -> [ok |-> FALSE, v |-> NonObj("undef")]

\* position of the first "\n" at or after i, 0 when there is none (indexOf)
RECURSIVE IndexOfNewline(_, _)
IndexOfNewline(s, i) ==
  IF i > Len(s) THEN 0
  ELSE IF s[i] = "\n" THEN i ELSE IndexOfNewline(s, i + 1)

\* while ((idx = buffer.indexOf("\n")) !== -1): the non-blank trimmed lines taken
\* off the buffer, and what stays in it
RECURSIVE FrameLines(_)
FrameLines(buf) ==
  LET idx == IndexOfNewline(buf, 1) IN
  IF idx = 0 THEN [lines |-> <<>>, rest |-> buf]
  ELSE LET line == trim(SubSeq(buf, 1, idx - 1))
           more == FrameLines(SubSeq(buf, idx + 1, Len(buf)))
       IN  [lines |-> IF line = <<>> THEN more.lines ELSE <<line>> \o more.lines,
            rest |-> more.rest]

FramedChunkOnly(buf, txt) == FrameLines(txt)

\* buffer += txt, then the framing loop
Framed(buf, txt) == FrameLines(buf \o txt)

\* first position at or after i that holds no "\n"
RECURSIVE NewlineRunEnd(_, _)
NewlineRunEnd(s, i) ==
  IF i > Len(s) THEN i
  ELSE IF s[i] = "\n" THEN NewlineRunEnd(s, i + 1) ELSE i

\* text.split(/\n+/)
RECURSIVE SplitNewlines(_)
SplitNewlines(t) ==
  LET idx == IndexOfNewline(t, 1) IN
  IF idx = 0 THEN <<t>>
  ELSE <<SubSeq(t, 1, idx - 1)>>
       \o SplitNewlines(SubSeq(t, NewlineRunEnd(t, idx), Len(t)))

NonEmpty(l) == l # <<>>

\* text.split(/\n+/).map(l => l.trim()).filter(Boolean)
SplitLines(t) ==
  LET parts == SplitNewlines(t) IN
  SelectSeq([i \in 1..Len(parts) |-> trim(parts[i])], NonEmpty)

\* strip a leading code fence (with an optional "json" after it) and a trailing
\* code fence, then trim: the two replace() calls on rawSingle and retryText
StripFences(raw) ==
  LET a == IF raw # <<>> /\ Head(raw) = "F"
           THEN IF Len(raw) >= 2 /\ raw[2] = "j"
                THEN SubSeq(raw, 3, Len(raw)) ELSE Tail(raw)
           ELSE raw
      b == IF a # <<>> /\ a[Len(a)] = "F" THEN SubSeq(a, 1, Len(a) - 1) ELSE a
  IN  trim(b)

\* ------------------------------------------------------------------ state
VARIABLES
  pc,                 \* where the handler is suspended (the await it waits on)
  count,              \* const count: the effective count, a number n/d
  topic,              \* const topic
  emitted,            \* let emitted: units accepted so far
  buffer,             \* let buffer: text received and not yet framed
  chunks,             \* number of chunks the primary stream has delivered
  existingQuestions,  \* the Set of fingerprints of single-item recovery
  events,             \* every line enqueued on the controller, in order
  thrown,             \* history: the awaits at which an upstream call threw
  calls,              \* history: the upstream calls issued, in order
  vq,                 \* function harness: the input under test
  vstage,             \* function harness: how far the input was processed
  vres                \* function harness: what the function under test returned

vars == <<pc, count, topic, emitted, buffer, chunks, existingQuestions, events,
          thrown, calls, vq, vstage, vres>>

sessionVars == <<pc, count, topic, emitted, buffer, chunks, existingQuestions,
                 events, thrown, calls>>
harnessVars == <<vq, vstage, vres>>

\* ----------------------------------------------------------------- bounds
\* chunks one primary stream delivers at most
MaxChunks == 2
\* largest count a request of the model asks for
MaxReqCount == 2

\* Math.min(10, body.count)
CountCap == 10

\* the JavaScript number n/d (d > 0), and a value of another kind
NumberOf(n, d) == [k |-> "num", n |-> n, d |-> d]
NotNumber(kind) == [k |-> kind, n |-> 0, d |-> 1]

\* const count = typeof body.count === "number" && body.count > 0
\*                 ? Math.min(10, body.count) : 10
EffectiveCount(c) ==
  IF c.k = "num" /\ c.n > 0
  THEN (IF c.n < CountCap * c.d THEN c ELSE NumberOf(CountCap, 1))
  ELSE NumberOf(CountCap, 1)

\* x < c and c - x for an integer x and a number c
Below(x, c) == x * c.d < c.n
Minus(c, x) == NumberOf(c.n - x * c.d, c.d)

\* the counts the requests of the session ask for: whole numbers and halves
BodyCounts ==
  {NumberOf(n, 1) : n \in 1..MaxReqCount} \cup {NumberOf(1, 2), NumberOf(3, 2)}
Topics == {<<"m","a","t","h">>}

\* ----------------------------------------------------------------- events
NoUnit == NonObj("undef")

\* tier is bookkeeping of the model: the stage that produced a question
Ev(type, stage, index, completed, total, question, tier) ==
  [type |-> type, stage |-> stage, index |-> index, completed |-> completed,
   total |-> total, question |-> question, tier |-> tier]

ServerEv(stage) == Ev("server", stage, 0, 0, 0, NoUnit, "")
QuestionEv(i, q, tier) == Ev("question", "", i, 0, 0, q, tier)
ProgressEv(c, t) == Ev("progress", "", 0, c, t, NoUnit, "")
DoneEv == Ev("done", "", 0, 0, 0, NoUnit, "")
ErrorEv == Ev("error", "", 0, 0, 0, NoUnit, "")

EmitQuestionNoProgress(evs, em, q, tier) ==
  evs \o <<QuestionEv(em, q, tier)>>

EmitQuestionStaleIndex(evs, em, q, tier) ==
  evs \o <<QuestionEv(em - 1, q, tier), ProgressEv(em, count)>>

\* enqueue {type:"question", index: emitted, question} and then
\* {type:"progress", completed: emitted, total: count}; em is emitted after += 1
EmitQuestion(evs, em, q, tier) ==
  evs \o <<QuestionEv(em, q, tier), ProgressEv(em, count)>>

\* ------------------------------------------------ the six candidate loops
\* guard: break at the top of the loop once emitted >= count
\* brk: break right after an accept that reaches count
\* san: the accepted unit goes through sanitizeQuestion
\* invalid, parseError: stage of the diagnostic event, "" when none is sent
Loop(tier, guard, brk, san, invalid, parseError) ==
  [tier |-> tier, guard |-> guard, brk |-> brk, san |-> san,
   invalid |-> invalid, parseError |-> parseError]

PrimaryLoop == Loop("primary", FALSE, FALSE, TRUE, "invalid", "")
FlushLoop == Loop("flush", TRUE, FALSE, TRUE, "invalid-trailing", "parse-error-trailing")
Bulk1Loop == Loop("bulk1", FALSE, TRUE, TRUE, "invalid-fallback", "parse-error-fallback")
Bulk2Loop == Loop("bulk2", FALSE, TRUE, TRUE, "", "")
Bulk3Loop == Loop("bulk3", FALSE, TRUE, TRUE, "", "")
FallbackLoop == Loop("fallback", FALSE, FALSE, FALSE, "", "")
FallbackTopupLoop == Loop("fallback-topup", FALSE, TRUE, FALSE, "", "")

Diagnostic(evs, stage) == IF stage = "" THEN evs ELSE Append(evs, ServerEv(stage))

\* a discarded candidate: why is "parse" (JSON.parse threw), "invalid" (the
\* validator returned false) or "duplicate" (the fingerprint was seen before)
Rejected(tier, why) == [tier |-> tier, why |-> why]

\* the result r of the rest of a loop, after a candidate was discarded
After(tier, why, r) == [r EXCEPT !.log = <<Rejected(tier, why)>> \o @]

\* for (const line of lines) { try { JSON.parse; isValidQuestion; ... } catch {} }
\* log lists the candidates the loop discarded
RECURSIVE ProcessLines(_, _, _, _)
ProcessLines(lines, em, evs, loop) ==
  IF lines = <<>> THEN [emitted |-> em, events |-> evs, log |-> <<>>]
  ELSE IF loop.guard /\ ~Below(em, count) THEN [emitted |-> em, events |-> evs, log |-> <<>>]
  ELSE LET p == JSONparse(Head(lines)) IN
       IF ~p.ok
       THEN After(loop.tier, "parse",
                  ProcessLines(Tail(lines), em, Diagnostic(evs, loop.parseError), loop))
       ELSE IF isValidQuestion(p.v)
       THEN LET q == IF loop.san THEN sanitizeQuestion(p.v) ELSE p.v
                out == EmitQuestion(evs, em + 1, q, loop.tier)
            IN  IF loop.brk /\ ~Below(em + 1, count)
                THEN [emitted |-> em + 1, events |-> out, log |-> <<>>]
                ELSE ProcessLines(Tail(lines), em + 1, out, loop)
       ELSE After(loop.tier, "invalid",
                  ProcessLines(Tail(lines), em, Diagnostic(evs, loop.invalid), loop))

\* --------------------------------------------- texts the upstream returns
ChunkTexts ==
  { <<"1", "\n">>,
    <<"d", "\n">>,
    <<"k", "\n", "3", "\n">>,
    <<"x", "\n", " ", "\n", "{">>,
    <<"}">> }

BulkTexts ==
  { <<>>,
    <<"1", "\n", "d">>,
    <<"x", "\n", "\n", "3">>,
    <<"{", " ", "}", "\n">> }

SingleTexts ==
  { <<"F", "j", "\n", "1", "\n", "F">>,
    <<" ", "d">>,
    <<"x">>,
    <<"3">> }

FallbackTexts ==
  { <<>>,
    <<"1", "\n", "k", "\n", "x">>,
    <<"3", "\n", "{", "}">> }

\* ----------------------------------------------------------- upstream calls
\* a call to the model: kind names the call site, asked is the number of units
\* its prompt asks for, slot the position the next accepted unit would get,
\* open whether the call (or the stream it returned) is still awaited
Call(kind, asked, slot) == [kind |-> kind, asked |-> asked, slot |-> slot, open |-> TRUE]

\* the awaited call returned or threw (a stream: it was read to its end)
Settle(cs) == [i \in 1..Len(cs) |-> [cs[i] EXCEPT !.open = FALSE]]

IssueUnawaited(cs, kind, asked, slot) == Append(cs, Call(kind, asked, slot))

\* await model.generateContent(...): the previous call is over, this one starts
Issue(cs, kind, asked, slot) == Append(Settle(cs), Call(kind, asked, slot))

\* ------------------------------------------------------- ends of a session
\* controller.enqueue({type:"done"}); controller.close()
Conclude(em, evs) ==
  /\ calls' = Settle(calls)
  /\ emitted' = em
  /\ events' = Append(evs, DoneEv)
  /\ pc' = "closed"

CatchThenDone ==
  /\ events' = events \o <<ErrorEv, DoneEv>>
  /\ pc' = "errored"
  /\ thrown' = thrown \cup {pc}
  /\ calls' = Settle(calls)
  /\ UNCHANGED <<count, topic, emitted, buffer, chunks, existingQuestions>>

\* catch (err) { controller.enqueue({type:"error"}); controller.error(err) }
Catch ==
  /\ events' = Append(events, ErrorEv)
  /\ pc' = "errored"
  /\ thrown' = thrown \cup {pc}
  /\ calls' = Settle(calls)
  /\ UNCHANGED <<count, topic, emitted, buffer, chunks, existingQuestions>>

\* ---------------------------------------------------------------- actions
\* start(controller) up to the await of generateContentStream
Start ==
  /\ pc = "init"
  /\ events' = events \o <<ServerEv("received"), ServerEv("prompt-built")>>
  /\ pc' = "awaitStream"
  /\ calls' = Issue(calls, "stream", count, 1)
  /\ UNCHANGED <<count, topic, emitted, buffer, chunks, existingQuestions, thrown>>

\* if (result && result.stream): stream-open, buffer = "", emitted = 0
StreamOpen ==
  /\ pc = "awaitStream"
  /\ events' = Append(events, ServerEv("stream-open"))
  /\ buffer' = <<>>
  /\ emitted' = 0
  /\ pc' = "streaming"
  /\ UNCHANGED <<count, topic, chunks, existingQuestions, thrown, calls>>

\* generateContentStream is missing or returns no stream: the in-route fallback
NoStream ==
  /\ pc = "awaitStream"
  /\ events' = Append(events, ServerEv("fallback"))
  /\ pc' = "fallback"
  /\ calls' = Issue(calls, "fallback", count, 1)
  /\ UNCHANGED <<count, topic, emitted, buffer, chunks, existingQuestions, thrown>>

StreamCallThrows ==
  /\ pc = "awaitStream"
  /\ Catch

\* one iteration of for await (const chunk of result.stream)
Chunk ==
  /\ pc = "streaming"
  /\ chunks < MaxChunks
  /\ \E txt \in ChunkTexts :
       LET f == Framed(buffer, txt)
           r == ProcessLines(f.lines, emitted, Append(events, ServerEv("chunk")),
                             PrimaryLoop)
       IN  /\ buffer' = f.rest
           /\ emitted' = r.emitted
           /\ events' = r.events
  /\ chunks' = chunks + 1
  /\ UNCHANGED <<pc, count, topic, existingQuestions, thrown, calls>>

StreamThrows ==
  /\ pc = "streaming"
  /\ Catch

StreamEndNoFlush ==
  /\ pc = "streaming"
  /\ IF Below(emitted, count)
     THEN /\ events' = Append(events, ServerEv("fallback-topup"))
          /\ pc' = "bulk1"
          /\ calls' = Issue(calls, "bulk1", Minus(count, emitted), emitted + 1)
          /\ UNCHANGED emitted
     ELSE Conclude(emitted, events)
  /\ UNCHANGED <<count, topic, buffer, chunks, existingQuestions, thrown>>

\* the stream ends: trailing flush, then the top-up check
StreamEnd ==
  /\ pc = "streaming"
  /\ LET f == IF trim(buffer) # <<>> /\ Below(emitted, count)
              THEN ProcessLines(SplitLines(buffer), emitted, events, FlushLoop)
              ELSE [emitted |-> emitted, events |-> events, log |-> <<>>]
     IN  IF Below(f.emitted, count)
         THEN /\ emitted' = f.emitted
              /\ events' = Append(f.events, ServerEv("fallback-topup"))
              /\ pc' = "bulk1"
              /\ calls' = Issue(calls, "bulk1", Minus(count, f.emitted), f.emitted + 1)
         ELSE Conclude(f.emitted, f.events)
  /\ UNCHANGED <<count, topic, buffer, chunks, existingQuestions, thrown>>

\* what follows a bulk round: the next round, single-item recovery, or done
AfterBulk(r, nextStage, nextPc) ==
  IF Below(r.emitted, count)
  THEN /\ emitted' = r.emitted
       /\ events' = Append(r.events, ServerEv(nextStage))
       /\ pc' = nextPc
       /\ calls' = Issue(calls, nextPc,
                         IF nextPc = "single" THEN NumberOf(1, 1) ELSE Minus(count, r.emitted),
                         r.emitted + 1)
  ELSE Conclude(r.emitted, r.events)

\* fb = await model.generateContent(topPrompt) returns
Bulk1Return ==
  /\ pc = "bulk1"
  /\ \E text \in BulkTexts :
       AfterBulk(ProcessLines(SplitLines(text), emitted, events, Bulk1Loop),
                 "second-retry", "bulk2")
  /\ UNCHANGED <<count, topic, buffer, chunks, existingQuestions, thrown>>

\* fb2 = await model.generateContent(top2) returns
Bulk2Return ==
  /\ pc = "bulk2"
  /\ \E text \in BulkTexts :
       AfterBulk(ProcessLines(SplitLines(text), emitted, events, Bulk2Loop),
                 "final-retry", "bulk3")
  /\ UNCHANGED <<count, topic, buffer, chunks, existingQuestions, thrown>>

\* fb3 = await model.generateContent(top3) returns; existingQuestions = new Set()
Bulk3Return ==
  /\ pc = "bulk3"
  /\ \E text \in BulkTexts :
       AfterBulk(ProcessLines(SplitLines(text), emitted, events, Bulk3Loop),
                 "final-single-regeneration", "single")
  /\ existingQuestions' = {}
  /\ UNCHANGED <<count, topic, buffer, chunks, thrown>>

\* a bulk generateContent call throws: nothing catches it before the outer catch
BulkThrows ==
  /\ pc \in {"bulk1", "bulk2", "bulk3"}
  /\ Catch

\* while (emitted < count): the next iteration, or done
LoopNext(em, evs) ==
  IF Below(em, count)
  THEN /\ emitted' = em
       /\ events' = evs
       /\ pc' = "single"
       /\ calls' = Issue(calls, "single", NumberOf(1, 1), em + 1)
  ELSE Conclude(em, evs)

AcceptsSeen(p) ==
  /\ p.ok
  /\ isValidQuestion(p.v)

\* candidate && isValidQuestion(candidate) && !existingQuestions.has(norm)
Accepts(p) ==
  /\ p.ok
  /\ isValidQuestion(p.v)
  /\ normalize(p.v.question.s) \notin existingQuestions

\* why a single-item candidate is not accepted
WhyNot(p) ==
  IF ~p.ok THEN "parse" ELSE IF ~isValidQuestion(p.v) THEN "invalid" ELSE "duplicate"

\* existingQuestions.add(norm); emitted += 1; enqueue question, progress; continue
AcceptSingle(p, tier) ==
  /\ existingQuestions' = existingQuestions \cup {normalize(p.v.question.s)}
  /\ LoopNext(emitted + 1,
              EmitQuestion(events, emitted + 1, sanitizeQuestion(p.v), tier))

\* if (emitted < count) { emitted += 1; synthetic ...; enqueue question, progress }
Filler ==
  /\ LoopNext(emitted + 1,
              EmitQuestion(events, emitted + 1,
                           sanitizeQuestion(synthetic(emitted + 1, topic)),
                           "synthetic"))
  /\ UNCHANGED existingQuestions

\* single = await model.generateContent(genPrompt) returns
SingleReturn ==
  /\ pc = "single"
  /\ \E text \in SingleTexts :
       LET p == JSONparse(StripFences(trim(text))) IN
       IF Accepts(p) THEN AcceptSingle(p, "single")
       ELSE /\ pc' = "variant"
            /\ calls' = Issue(calls, "variant", NumberOf(1, 1), emitted + 1)
            /\ UNCHANGED <<emitted, events, existingQuestions>>
  /\ UNCHANGED <<count, topic, buffer, chunks, thrown>>

\* the single-unit call throws: the inner catch swallows it, then the filler
SingleThrows ==
  /\ pc = "single"
  /\ Filler
  /\ thrown' = thrown \cup {pc}
  /\ UNCHANGED <<count, topic, buffer, chunks>>

\* retry = await model.generateContent(variantPrompt) returns
VariantReturn ==
  /\ pc = "variant"
  /\ \E text \in SingleTexts :
       LET p == JSONparse(StripFences(trim(text))) IN
       IF Accepts(p) THEN AcceptSingle(p, "variant") ELSE Filler
  /\ UNCHANGED <<count, topic, buffer, chunks, thrown>>

\* the variant retry throws: the inner catch swallows it, then the filler
VariantThrows ==
  /\ pc = "variant"
  /\ Filler
  /\ thrown' = thrown \cup {pc}
  /\ UNCHANGED <<count, topic, buffer, chunks>>

\* fallback = await model.generateContent(prompt) returns (no stream was opened)
FallbackReturn ==
  /\ pc = "fallback"
  /\ \E text \in FallbackTexts :
       LET r == ProcessLines(SplitLines(text), 0, events, FallbackLoop) IN
       IF Below(r.emitted, count)
       THEN /\ emitted' = r.emitted
            /\ events' = Append(r.events, ServerEv("fallback-topup"))
            /\ pc' = "fallbackTopup"
            /\ calls' = Issue(calls, "fallbackTopup", Minus(count, r.emitted), r.emitted + 1)
       ELSE Conclude(r.emitted, r.events)
  /\ UNCHANGED <<count, topic, buffer, chunks, existingQuestions, thrown>>

\* fb = await model.generateContent(topPrompt) returns on the fallback path
FallbackTopupReturn ==
  /\ pc = "fallbackTopup"
  /\ \E text \in FallbackTexts :
       LET r == ProcessLines(SplitLines(text), emitted, events, FallbackTopupLoop) IN
       Conclude(r.emitted, r.events)
  /\ UNCHANGED <<count, topic, buffer, chunks, existingQuestions, thrown>>

FallbackThrows ==
  /\ pc \in {"fallback", "fallbackTopup"}
  /\ Catch

\* ---------------------------------------------------------- specification
HarnessOff ==
  /\ vq = NoUnit
  /\ vstage = "off"
  /\ vres = FALSE

Init ==
  /\ pc = "init"
  /\ count \in {EffectiveCount(c) : c \in BodyCounts}
  /\ topic \in Topics
  /\ emitted = 0
  /\ buffer = <<>>
  /\ chunks = 0
  /\ existingQuestions = {}
  /\ events = <<>>
  /\ thrown = {}
  /\ calls = <<>>
  /\ HarnessOff

Next ==
  \/ (Start /\ UNCHANGED harnessVars)
  \/ (StreamOpen /\ UNCHANGED harnessVars)
  \/ (NoStream /\ UNCHANGED harnessVars)
  \/ (StreamCallThrows /\ UNCHANGED harnessVars)
  \/ (Chunk /\ UNCHANGED harnessVars)
  \/ (StreamThrows /\ UNCHANGED harnessVars)
  \/ (StreamEnd /\ UNCHANGED harnessVars)
  \/ (Bulk1Return /\ UNCHANGED harnessVars)
  \/ (Bulk2Return /\ UNCHANGED harnessVars)
  \/ (Bulk3Return /\ UNCHANGED harnessVars)
  \/ (BulkThrows /\ UNCHANGED harnessVars)
  \/ (SingleReturn /\ UNCHANGED harnessVars)
  \/ (SingleThrows /\ UNCHANGED harnessVars)
  \/ (VariantReturn /\ UNCHANGED harnessVars)
  \/ (VariantThrows /\ UNCHANGED harnessVars)
  \/ (FallbackReturn /\ UNCHANGED harnessVars)
  \/ (FallbackTopupReturn /\ UNCHANGED harnessVars)
  \/ (FallbackThrows /\ UNCHANGED harnessVars)

Spec == Init /\ [][Next]_vars

\* ------------------------------------------------------ validator harness
\* isValidQuestion applied to every candidate of a bounded set
StemAlphabet == {"a", " "}

RECURSIVE StringsUpTo(_)
StringsUpTo(n) ==
  IF n = 0 THEN {<<>>}
  ELSE LET shorter == StringsUpTo(n - 1) IN
       shorter \cup {Append(t, c) : t \in {u \in shorter : Len(u) = n - 1},
                                    c \in StemAlphabet}

StemSamples ==
  {Str(t) : t \in StringsUpTo(MaxStemLen)}
    \cup {Num, Undef, Str(<<" ","b","l","a","n","k"," ">>)}

OptionSamples ==
  { GoodOptions,
    Arr(<<Str(<<"w">>), Str(<<"x">>), Str(<<"y">>)>>),
    Arr(<<Str(<<"w">>), Str(<<"x">>), Str(<<"y">>), Str(<<"z">>), Str(<<"v">>)>>),
    Arr(<<Str(<<"w">>), Str(<<" ">>), Str(<<"y">>), Str(<<"z">>)>>),
    Arr(<<Str(<<"w">>), Str(<<"x">>), Str(<<"y">>), Num>>),
    NoArr("undef"),
    NoArr("str") }

AnswerSamples ==
  { Str(<<"A">>), Str(<<"D">>), Str(<<"E">>), Str(<<"a">>), Str(<<"A", "B">>), Num, Undef }

ExplSamples ==
  { GoodExpl,
    Expl(Str(<<"p">>), Str(<<"q">>), Str(<<"r">>), Undef),
    Expl(Str(<<"p">>), Str(<<" ">>), Str(<<"r">>), Str(<<"s">>)),
    Expl(Num, Str(<<"q">>), Str(<<"r">>), Str(<<"s">>)),
    NoExpl("undef"),
    NoExpl("null"),
    NoExpl("str"),
    NoExpl("arr") }

CorrectExplSamples == { Str(<<"t">>), Str(<<" ", "t">>), Str(<<" ">>), Str(<<>>), Num, Undef }

\* one field varies over its samples while the others range over two values
Candidates ==
  { Obj(q, GoodOptions, ca, ie, ce) :
      q \in StemSamples, ca \in {Str(<<"A">>), Str(<<"E">>)},
      ie \in {GoodExpl, NoExpl("undef")}, ce \in {Str(<<"t">>), Str(<<" ">>)} }
  \cup
  { Obj(Str(q), o, ca, ie, ce) :
      q \in {<<"a","a","a","a">>, <<" ","a","a","a","a","a"," ">>},
      o \in OptionSamples, ca \in AnswerSamples, ie \in ExplSamples,
      ce \in CorrectExplSamples }
  \cup
  { NonObj(kd) : kd \in {"null", "num", "str", "arr"} }

SessionOff ==
  /\ pc = "off"
  /\ count = 0
  /\ topic = <<>>
  /\ emitted = 0
  /\ buffer = <<>>
  /\ chunks = 0
  /\ existingQuestions = {}
  /\ events = <<>>
  /\ thrown = {}
  /\ calls = <<>>

InitValidator ==
  /\ SessionOff
  /\ vq \in Candidates
  /\ vstage = "new"
  /\ vres = FALSE

\* const ok = isValidQuestion(obj)
Validate ==
  /\ vstage = "new"
  /\ vres' = isValidQuestion(vq)
  /\ vstage' = "checked"
  /\ UNCHANGED vq

NextValidator ==
  \/ (Validate /\ UNCHANGED sessionVars)

SpecValidator == InitValidator /\ [][NextValidator]_vars

\* ------------------------------------------------------ sanitizer harness
\* sanitizeQuestion applied once, and once more to its own result
\* pieces a stem or an option is put together from, at most
MaxPieces == 3

SanitizerPieces ==
  { <<"b","l","a","n","k">>, <<"B","l","a","N","K">>,
    <<" ","b","l","a","n","k"," ">>, <<" ">>, <<"\t">>, <<"a">>, <<"-">>, <<"_">> }

RECURSIVE PieceStrings(_)
PieceStrings(n) ==
  IF n = 0 THEN {<<>>}
  ELSE LET shorter == PieceStrings(n - 1) IN
       shorter \cup {t \o p : t \in shorter, p \in SanitizerPieces}

SanitizerInputs ==
  { Obj(Str(t), GoodOptions, Str(<<"A">>), GoodExpl, Str(<<"t">>)) :
      t \in PieceStrings(MaxPieces) }
  \cup
  { Obj(Str(<<"a","b","c","d","e">>),
        Arr(<<Str(t), Str(<<" ","x"," "," ","y">>), Num, Str(BlankWord)>>),
        Str(<<"A">>), GoodExpl, Str(<<" ","b","l","a","n","k"," "," ","t">>)) :
      t \in PieceStrings(MaxPieces) }
  \cup
  { Obj(Num, NoArr("undef"), Str(<<"A">>), GoodExpl, Str(<<"t">>)),
    Obj(Undef, NoArr("str"), Undef, NoExpl("undef"), Undef) }

InitSanitizer ==
  /\ SessionOff
  /\ vq \in SanitizerInputs
  /\ vstage = "new"
  /\ vres = <<>>

\* const sanitized = sanitizeQuestion(obj)
SanitizeOnce ==
  /\ vstage = "new"
  /\ vres' = <<sanitizeQuestion(vq)>>
  /\ vstage' = "once"
  /\ UNCHANGED vq

\* sanitizeQuestion applied to a unit that went through it already
SanitizeAgain ==
  /\ vstage = "once"
  /\ vres' = Append(vres, sanitizeQuestion(vres[1]))
  /\ vstage' = "twice"
  /\ UNCHANGED vq

NextSanitizer ==
  \/ (SanitizeOnce /\ UNCHANGED sessionVars)
  \/ (SanitizeAgain /\ UNCHANGED sessionVars)

SpecSanitizer == InitSanitizer /\ [][NextSanitizer]_vars

\* ----------------------------------------------------------- filler harness
\* The synthetic filler for two slots of one session: vq is the topic as the
\* template literal prints it and the two slot numbers, vres the two units.
\* most pieces a topic is built from
MaxTopicPieces == 2

TopicPieces ==
  { <<"m">>, <<"b","l","a","n","k">>, <<" ">>, <<"1">>,
    <<" ","B","l","a","n","k"," ">> }

RECURSIVE TopicStrings(_)
TopicStrings(n) ==
  IF n = 0 THEN {<<>>}
  ELSE LET shorter == TopicStrings(n - 1) IN
       shorter \cup {t \o p : t \in shorter, p \in TopicPieces}

\* topic = String(body.topic || "").trim(); !topic refuses the empty string
FillerTopics == {trim(t) : t \in TopicStrings(MaxTopicPieces)} \ {<<>>}

FillerInputs ==
  { [topic |-> t, slot |-> n, other |-> m] :
      t \in FillerTopics, n \in 1..CountCap, m \in 1..CountCap }

InitFiller ==
  /\ vq \in {f \in FillerInputs : f.slot < f.other}
  /\ vstage = "new"
  /\ vres = <<>>
  /\ pc = "off"
  /\ count = NumberOf(CountCap, 1)
  /\ topic = vq.topic
  /\ emitted = 0
  /\ buffer = <<>>
  /\ chunks = 0
  /\ existingQuestions = {}
  /\ events = <<>>
  /\ thrown = {}
  /\ calls = <<>>

\* const synthetic = { question: ..., ... } for the two slots
BuildFiller ==
  /\ vstage = "new"
  /\ vres' = <<synthetic(vq.slot, topic), synthetic(vq.other, topic)>>
  /\ vstage' = "built"
  /\ UNCHANGED vq

\* const sanitizedSyn = sanitizeQuestion(synthetic)
SanitizeFiller ==
  /\ vstage = "built"
  /\ vres' = <<sanitizeQuestion(vres[1]), sanitizeQuestion(vres[2])>>
  /\ vstage' = "sanitized"
  /\ UNCHANGED vq

NextFiller ==
  \/ (BuildFiller /\ UNCHANGED sessionVars)
  \/ (SanitizeFiller /\ UNCHANGED sessionVars)

SpecFiller == InitFiller /\ [][NextFiller]_vars

\* ------------------------------------------------------- request handling
\* The two POST handlers from the request to the first upstream call: the
\* streaming route (part_001) and the non-streaming route (part_002).
\* vq is the request: the route, whether an API key is configured, the body.
\* vres is the response (status 0: none yet) and the upstream calls issued.
\* largest whole number a request body carries as count
MaxBodyCount == 11
\* most units the JSON blob of the non-streaming route carries
MaxBlobItems == 3

\* a body: k is "obj" for a JSON object, "null" for JSON null, "str" for any
\* other JSON value, "unparsable" when req.json() throws
Body(kind, section, topicValue, countValue, mistakes) ==
  [k |-> kind, section |-> section, topic |-> topicValue, count |-> countValue,
   recentMistakes |-> mistakes]

\* values of body.recentMistakes: missing, no array, arrays of strings and others
MistakeSamples ==
  { NoArr("undef"), NoArr("str"), Arr(<<>>),
    Arr(<<Str(<<"q","1">>)>>),
    Arr(<<Str(<<"q","1">>), Num>>),
    Arr(<<Str(<<" ">>), Str(<<"q","2">>)>>),
    Arr(<<Null, Str(<<"q","1">>), Str(<<>>)>>) }

KeptMistake(v) == IsString(v) /\ trim(v.s) # <<>>

\* Array.isArray(body.recentMistakes)
\*   ? body.recentMistakes.filter(q => typeof q === "string" && q.trim().length > 0) : []
recentMistakes(body) ==
  IF body.recentMistakes.k = "arr"
  THEN SelectSeq(body.recentMistakes.items, KeptMistake) ELSE <<>>

FieldSamples == {Undef, Null, Str(<<>>), Str(<<" ", "\t">>), Str(<<" ", "M", " ">>)}

CountSamples ==
  {NotNumber("undef"), NotNumber("null"), NotNumber("str")}
    \cup {NumberOf(n, 1) : n \in -1..MaxBodyCount}
    \cup {NumberOf(n, 2) : n \in {m \in -1..(2 * MaxBodyCount) : m % 2 # 0}}

Bodies ==
  { Body("obj", sec, top, NumberOf(3, 1), NoArr("undef")) :
      sec \in FieldSamples, top \in FieldSamples }
  \cup
  { Body("obj", Str(<<"M">>), Str(<<"m","a","t","h">>), c, NoArr("undef")) :
      c \in CountSamples }
  \cup
  { Body("obj", sec, Str(<<"m","a","t","h">>), NumberOf(2, 1), ms) :
      sec \in {Undef, Str(<<"M">>)}, ms \in MistakeSamples }
  \cup
  { Body(kd, Undef, Undef, NotNumber("undef"), NoArr("undef")) : kd \in {"null", "str", "unparsable"} }

Requests ==
  { [route |-> rt, key |-> ky, body |-> b] :
      rt \in {"stream", "json"}, ky \in BOOLEAN, b \in Bodies }

\* String(v || "").trim() for a string, undefined or null
TextOf(v) == trim(IF IsString(v) THEN v.s ELSE <<>>)

UpfrontInputFirst(req) ==
  IF req.body.k \in {"unparsable", "null"} THEN 500
  ELSE IF TextOf(req.body.section) = <<>> \/ TextOf(req.body.topic) = <<>> THEN 400
  ELSE IF ~req.key THEN 500
  ELSE 0

\* the checks before the first upstream call: the status of the error response,
\* 0 when the request passes. A body that cannot be read as JSON, or null (its
\* property access throws), ends in the outermost catch
Upfront(req) ==
  IF ~req.key THEN 500
  ELSE IF req.body.k \in {"unparsable", "null"} THEN 500
  ELSE IF TextOf(req.body.section) = <<>> \/ TextOf(req.body.topic) = <<>> THEN 400
  ELSE 0

\* mistakes: the recentMistakes that go into the prompt
Response(status, issued, questions, mistakes) ==
  [status |-> status, calls |-> issued, questions |-> questions, mistakes |-> mistakes]

InitRequest ==
  /\ SessionOff
  /\ vq \in Requests
  /\ vstage = "new"
  /\ vres = Response(0, 0, <<>>, <<>>)

\* POST of the streaming route: the checks, then new ReadableStream runs
\* start() up to its first await (two events, the streaming call issued) and
\* the handler returns the Response around the stream (status 200)
Post ==
  /\ vstage = "new"
  /\ vq.route = "stream"
  /\ IF Upfront(vq) # 0
     THEN /\ vstage' = "rejected"
          /\ vres' = Response(Upfront(vq), 0, <<>>, <<>>)
          /\ UNCHANGED <<pc, count, topic, events, calls>>
     ELSE /\ vstage' = "accepted"
          /\ vres' = Response(200, 1, <<>>, recentMistakes(vq.body))
          /\ count' = EffectiveCount(vq.body.count)
          /\ topic' = TextOf(vq.body.topic)
          /\ events' = <<ServerEv("received"), ServerEv("prompt-built")>>
          /\ pc' = "awaitStream"
          /\ calls' = Issue(calls, "stream", EffectiveCount(vq.body.count), 1)
  /\ UNCHANGED <<vq, emitted, buffer, chunks, existingQuestions, thrown>>

\* POST of the non-streaming route up to await model.generateContent
PostJson ==
  /\ vstage = "new"
  /\ vq.route = "json"
  /\ IF Upfront(vq) # 0
     THEN /\ vstage' = "rejected"
          /\ vres' = Response(Upfront(vq), 0, <<>>, <<>>)
          /\ UNCHANGED <<count, topic>>
     ELSE /\ vstage' = "calling"
          /\ vres' = Response(0, 1, <<>>, recentMistakes(vq.body))
          /\ count' = EffectiveCount(vq.body.count)
          /\ topic' = TextOf(vq.body.topic)
  /\ UNCHANGED <<vq, pc, emitted, buffer, chunks, existingQuestions, events, thrown,
                 calls>>

\* The text of the non-streaming route is one JSON blob: "Q" stands for the
\* opening of an object with a questions array, "E" for its closing, and the
\* symbols between them for the items of the array.
ItemSymbols == {"1", "k", "3"}

RECURSIVE BlobsUpTo(_)
BlobsUpTo(n) ==
  IF n = 0 THEN {<<>>}
  ELSE LET shorter == BlobsUpTo(n - 1) IN
       shorter \cup {Append(t, c) : t \in {u \in shorter : Len(u) = n - 1},
                                    c \in ItemSymbols}

JsonTexts ==
  {<<"Q">> \o t \o <<"E">> : t \in BlobsUpTo(MaxBlobItems)}
    \cup {<<"x">>, <<"{", "}">>, <<"Q", "1">>}

\* JSON.parse(text) and the shape check Array.isArray(parsed.questions)
ParseBlob(t) ==
  IF /\ Len(t) >= 2
     /\ t[1] = "Q"
     /\ t[Len(t)] = "E"
     /\ \A i \in 2..(Len(t) - 1) : t[i] \in ItemSymbols
  THEN [ok |-> TRUE, questions |-> [i \in 1..(Len(t) - 2) |-> JSONparse(<<t[i + 1]>>).v]]
  ELSE [ok |-> FALSE, questions |-> <<>>]

\* result = await model.generateContent returns: parse, sanitize, respond
JsonReturn ==
  /\ vstage = "calling"
  /\ \E text \in JsonTexts :
       LET p == ParseBlob(text) IN
       vres' = IF p.ok
               THEN Response(200, vres.calls,
                             [i \in 1..Len(p.questions) |-> sanitizeQuestion(p.questions[i])],
                             vres.mistakes)
               ELSE Response(502, vres.calls, <<>>, vres.mistakes)
  /\ vstage' = "responded"
  /\ UNCHANGED <<vq, sessionVars>>

\* model.generateContent throws: the outer catch answers 500
JsonThrows ==
  /\ vstage = "calling"
  /\ vres' = Response(500, vres.calls, <<>>, vres.mistakes)
  /\ vstage' = "responded"
  /\ UNCHANGED <<vq, sessionVars>>

NextRequest ==
  \/ Post
  \/ PostJson
  \/ JsonReturn
  \/ JsonThrows
  \/ (StreamOpen /\ UNCHANGED harnessVars)
  \/ (NoStream /\ UNCHANGED harnessVars)
  \/ (StreamCallThrows /\ UNCHANGED harnessVars)

SpecRequest == InitRequest /\ [][NextRequest]_vars

\* ----------------------------------------------------------- loop harness
\* One run of the candidate loop of a tier over a list of non-blank lines, from
\* a session that has accepted vq.em units; vres lists the candidates the loop
\* discarded. The single-item tier examines one text per call.
\* most lines handed to one loop
MaxLines == 2

LineSamples == {<<"1">>, <<"3">>, <<"x">>, <<"{", " ", "}">>}

RECURSIVE LineListsUpTo(_)
LineListsUpTo(n) ==
  IF n = 0 THEN {<<>>}
  ELSE LET shorter == LineListsUpTo(n - 1) IN
       shorter \cup {Append(t, c) : t \in {u \in shorter : Len(u) = n - 1},
                                    c \in LineSamples}

StreamedLoops == {PrimaryLoop, FlushLoop, Bulk1Loop, Bulk2Loop, Bulk3Loop}

\* the single-item candidate a text of the model holds
SingleCandidate(text) == JSONparse(StripFences(trim(text)))

\* the fingerprint sets an iteration of the single-item loop can start with:
\* nothing accepted yet, or one of the candidates accepted by an earlier slot
SeenSets ==
  {{}} \cup
  {{normalize(SingleCandidate(t).v.question.s)} :
     t \in {u \in SingleTexts : AcceptsSeen(SingleCandidate(u))}}

\* a streamed or bulk run has no fingerprint set and no retry; an iteration of
\* the single-item loop has the text of its first call in lines and the text
\* of its variant retry in retry
LoopRuns ==
  { [loop |-> l, lines |-> ls, em |-> e, total |-> c, seen |-> {}, retry |-> <<>>] :
      l \in StreamedLoops, ls \in LineListsUpTo(MaxLines),
      c \in 1..MaxReqCount, e \in 0..(MaxReqCount - 1) }
  \cup
  { [loop |-> Loop("single", FALSE, FALSE, TRUE, "", ""), lines |-> <<t>>,
     em |-> e, total |-> c, seen |-> sn, retry |-> rt] :
      t \in SingleTexts, c \in 1..MaxReqCount, e \in 0..(MaxReqCount - 1),
      sn \in SeenSets, rt \in SingleTexts }

InitLoops ==
  /\ vq \in {run \in LoopRuns : run.em < run.total}
  /\ vstage = "new"
  /\ vres = <<>>
  /\ pc = vq.loop.tier
  /\ count = NumberOf(vq.total, 1)
  /\ topic \in Topics
  /\ emitted = vq.em
  /\ buffer = <<>>
  /\ chunks = 0
  /\ existingQuestions = vq.seen
  /\ events = <<>>
  /\ thrown = {}
  /\ calls = <<>>

\* the for-of loop of a tier over its lines
RunLoop ==
  /\ vstage = "new"
  /\ vq.loop.tier # "single"
  /\ LET r == ProcessLines(vq.lines, emitted, events, vq.loop) IN
       /\ emitted' = r.emitted
       /\ events' = r.events
       /\ vres' = r.log
  /\ vstage' = "ran"
  /\ UNCHANGED <<vq, pc, count, topic, buffer, chunks, existingQuestions, thrown,
                 calls>>

\* single = await model.generateContent(genPrompt) returns one text
RunSingle ==
  /\ vstage = "new"
  /\ vq.loop.tier = "single"
  /\ LET p == SingleCandidate(vq.lines[1]) IN
       IF Accepts(p) THEN AcceptSingle(p, "single") /\ vres' = <<>>
       ELSE /\ pc' = "variant"
            /\ vres' = <<Rejected("single", WhyNot(p))>>
            /\ calls' = Issue(calls, "variant", NumberOf(1, 1), emitted + 1)
            /\ UNCHANGED <<emitted, events, existingQuestions>>
  /\ vstage' = "ran"
  /\ UNCHANGED <<vq, count, topic, buffer, chunks, thrown>>

\* retry = await model.generateContent(variantPrompt) returns one text
RunVariant ==
  /\ vstage = "ran"
  /\ pc = "variant"
  /\ LET p == SingleCandidate(vq.retry) IN
       IF Accepts(p) THEN AcceptSingle(p, "variant") /\ vres' = vres
       ELSE Filler /\ vres' = Append(vres, Rejected("variant", WhyNot(p)))
  /\ vstage' = "retried"
  /\ UNCHANGED <<vq, count, topic, buffer, chunks, thrown>>

NextLoops ==
  \/ RunLoop
  \/ RunSingle
  \/ RunVariant

SpecLoops == InitLoops /\ [][NextLoops]_vars

\* ------------------------------------------------------ concurrent sessions
\* Two requests served by one process. The variables of the session hold the
\* locals of the start() call that is running; vq holds the locals of the
\* other start() call, suspended at an await; vstage names the running one.
\* vres counts the steps the second request has taken.
\* most steps the second request takes
MaxOtherSteps == 3

LocalsSharedCounter(p, c, t, em, buf, ch, ex, evs, th, cs) ==
  [pc |-> p, count |-> c, topic |-> t, emitted |-> emitted, buffer |-> buf,
   chunks |-> ch, existingQuestions |-> ex, events |-> evs, thrown |-> th,
   calls |-> cs]

\* the locals of one start() call: every one is declared inside POST or start
Locals(p, c, t, em, buf, ch, ex, evs, th, cs) ==
  [pc |-> p, count |-> c, topic |-> t, emitted |-> em, buffer |-> buf,
   chunks |-> ch, existingQuestions |-> ex, events |-> evs, thrown |-> th,
   calls |-> cs]

\* the locals of the start() call that is running
Running ==
  Locals(pc, count, topic, emitted, buffer, chunks, existingQuestions, events,
         thrown, calls)

InitPair ==
  /\ pc = "init"
  /\ count = NumberOf(1, 1)
  /\ topic \in Topics
  /\ emitted = 0
  /\ buffer = <<>>
  /\ chunks = 0
  /\ existingQuestions = {}
  /\ events = <<>>
  /\ thrown = {}
  /\ calls = <<>>
  /\ vq = Locals("init", NumberOf(1, 1), topic, 0, <<>>, 0, {}, <<>>, {}, <<>>)
  /\ vstage = "first"
  /\ vres = 0

\* the running start() call goes on to its next await
PairStep ==
  /\ vstage = "second" => vres < MaxOtherSteps
  /\ vres' = IF vstage = "second" THEN vres + 1 ELSE vres
  /\ UNCHANGED <<vq, vstage>>

\* the running call is suspended at its await, the other one is resumed
Switch ==
  /\ vq' = Running
  /\ LET other ==
          Locals(vq.pc, vq.count, vq.topic, vq.emitted, vq.buffer, vq.chunks,
                 vq.existingQuestions, vq.events, vq.thrown, vq.calls)
     IN  /\ pc' = other.pc
         /\ count' = other.count
         /\ topic' = other.topic
         /\ emitted' = other.emitted
         /\ buffer' = other.buffer
         /\ chunks' = other.chunks
         /\ existingQuestions' = other.existingQuestions
         /\ events' = other.events
         /\ thrown' = other.thrown
         /\ calls' = other.calls
  /\ vstage' = IF vstage = "first" THEN "second" ELSE "first"
  /\ UNCHANGED vres

NextPair ==
  \/ (Start /\ PairStep)
  \/ (StreamOpen /\ PairStep)
  \/ (NoStream /\ PairStep)
  \/ (StreamCallThrows /\ PairStep)
  \/ (Chunk /\ PairStep)
  \/ (StreamThrows /\ PairStep)
  \/ (StreamEnd /\ PairStep)
  \/ (Bulk1Return /\ PairStep)
  \/ (Bulk2Return /\ PairStep)
  \/ (Bulk3Return /\ PairStep)
  \/ (BulkThrows /\ PairStep)
  \/ (SingleReturn /\ PairStep)
  \/ (SingleThrows /\ PairStep)
  \/ (VariantReturn /\ PairStep)
  \/ (VariantThrows /\ PairStep)
  \/ (FallbackReturn /\ PairStep)
  \/ (FallbackTopupReturn /\ PairStep)
  \/ (FallbackThrows /\ PairStep)
  \/ Switch

SpecPair == InitPair /\ [][NextPair]_vars

\* ------------------------------------------------------------ client reader
\* The practice page reads the response of the streaming route. vq is what the
\* server did: the events it enqueued, in order, and how it ended the stream
\* (controller.close() or controller.error(err)). vres is the client: wire is
\* the text not yet delivered, buf the reader's buffer, built its sparse array
\* of questions, got the messages it parsed, questions the list it committed.
\* most question events of one response
MaxWireQuestions == 2

\* a unit whose stem holds a line break between two words
UnitMultiline ==
  Obj(Str(<<"a","b","\n","c","d">>), GoodOptions, Str(<<"A">>), GoodExpl, Str(<<"t">>))

WireUnits == {Unit1, UnitMultiline}

\* JSON.stringify of a string: a line break is written as backslash, n
RECURSIVE Escape(_)
Escape(t) ==
  IF t = <<>> THEN <<>>
  ELSE (IF Head(t) = "\n" THEN <<"\\", "n">> ELSE <<Head(t)>>) \o Escape(Tail(t))

\* JSON.stringify(event): "{", a letter for the type, the numbers of the event
\* as digits, the stem of its question, "}"
Stringify(e) ==
  CASE e.type = "question" ->
         <<"{", "q", DigitChars[e.index + 1]>> \o Escape(e.question.question.s) \o <<"}">>
    [] e.type = "progress" ->
         <<"{", "p", DigitChars[e.completed + 1], DigitChars[e.total.n + 1], "}">>
    [] e.type = "done" -> <<"{", "d", "}">>
    [] e.type = "error" -> <<"{", "e", "}">>
    [] OTHER -> <<"{", "s", "}">>

\* controller.enqueue(encoder.encode(JSON.stringify(event) + "\n")) for every event
RECURSIVE WireText(_)
WireText(evs) ==
  IF evs = <<>> THEN <<>>
  ELSE Stringify(Head(evs)) \o <<"\n">> \o WireText(Tail(evs))

\* the reverse of Escape; ok is FALSE for a backslash that starts no escape
RECURSIVE Unescape(_)
Unescape(t) ==
  IF t = <<>> THEN [ok |-> TRUE, s |-> <<>>]
  ELSE IF Head(t) = "\\"
       THEN IF Len(t) >= 2 /\ t[2] = "n"
            THEN LET r == Unescape(SubSeq(t, 3, Len(t))) IN
                 [ok |-> r.ok, s |-> <<"\n">> \o r.s]
            ELSE [ok |-> FALSE, s |-> <<>>]
       ELSE LET r == Unescape(Tail(t)) IN [ok |-> r.ok, s |-> <<Head(t)>> \o r.s]

IsDigit(c) == c \in Digits
DigitValue(c) == CHOOSE n \in 0..9 : DigitChars[n + 1] = c

\* JSON.parse(line) of a line the reader framed: the message, or a throw
ParseMessage(line) ==
  LET fail == [ok |-> FALSE, msg |-> ServerEv("")]
      n == Len(line)
  IN  IF n < 3 \/ line[1] # "{" \/ line[n] # "}" THEN fail
      ELSE IF line[2] = "s" /\ n = 3 THEN [ok |-> TRUE, msg |-> ServerEv("received")]
      ELSE IF line[2] = "d" /\ n = 3 THEN [ok |-> TRUE, msg |-> DoneEv]
      ELSE IF line[2] = "e" /\ n = 3 THEN [ok |-> TRUE, msg |-> ErrorEv]
      ELSE IF line[2] = "p" /\ n = 5 /\ IsDigit(line[3]) /\ IsDigit(line[4])
           THEN [ok |-> TRUE,
                 msg |-> ProgressEv(DigitValue(line[3]), NumberOf(DigitValue(line[4]), 1))]
      ELSE IF line[2] = "q" /\ n >= 4 /\ IsDigit(line[3])
           THEN LET st == Unescape(SubSeq(line, 4, n - 1)) IN
                IF st.ok /\ \E u \in WireUnits : u.question.s = st.s
                THEN [ok |-> TRUE,
                      msg |-> QuestionEv(DigitValue(line[3]),
                                         CHOOSE u \in WireUnits : u.question.s = st.s,
                                         "primary")]
                ELSE fail
      ELSE fail

\* built[i] = q on a sparse array: the places in between stay empty
SetAt(built, i, q) ==
  [j \in 1..(IF i > Len(built) THEN i ELSE Len(built)) |->
     IF j = i THEN q ELSE IF j <= Len(built) THEN built[j] ELSE NoUnit]

IsFilled(q) == q # NoUnit

\* one message handled: a question goes to built[index - 1], counted from 0
Handle(c, msg) ==
  [c EXCEPT !.got = Append(@, msg),
            !.built = IF msg.type = "question" /\ msg.index - 1 >= 0
                      THEN SetAt(@, msg.index, msg.question) ELSE @]

\* while ((idx = buf.indexOf("\n")) !== -1) { line = buf.slice(0, idx).trim();
\* buf = buf.slice(idx + 1); if (!line) continue; try { JSON.parse ... } catch {} }
RECURSIVE Drain(_)
Drain(c) ==
  LET idx == IndexOfNewline(c.buf, 1) IN
  IF idx = 0 THEN c
  ELSE LET line == trim(SubSeq(c.buf, 1, idx - 1))
           rest == [c EXCEPT !.buf = SubSeq(c.buf, idx + 1, Len(c.buf))]
           m == ParseMessage(line)
       IN  IF line = <<>> \/ ~m.ok THEN Drain(rest) ELSE Drain(Handle(rest, m.msg))

\* the events of a response with k questions, before the event that ends it
RECURSIVE WireBodies(_)
WireBodies(k) ==
  IF k = 0 THEN {<<ServerEv("received")>>}
  ELSE {b \o <<QuestionEv(k, u, "primary"), ProgressEv(k, NumberOf(MaxWireQuestions, 1))>> :
          b \in WireBodies(k - 1), u \in WireUnits}

WireResponses ==
  UNION {{[events |-> Append(b, DoneEv), ending |-> "close"],
          [events |-> Append(b, ErrorEv), ending |-> "error"]} :
           b \in UNION {WireBodies(k) : k \in 0..MaxWireQuestions}}

InitClient ==
  /\ SessionOff
  /\ vq \in WireResponses
  /\ vstage = "reading"
  /\ vres = [wire |-> WireText(vq.events), buf |-> <<>>, built |-> <<>>,
             got |-> <<>>, questions |-> <<>>]

\* const { value, done } = await reader.read() returns the next n characters;
\* buf += decoder.decode(value), then the framing loop
Read ==
  /\ vstage = "reading"
  /\ \E n \in 1..Len(vres.wire) :
       vres' = Drain([vres EXCEPT !.wire = SubSeq(@, n + 1, Len(@)),
                                  !.buf = @ \o SubSeq(vres.wire, 1, n)])
  /\ UNCHANGED <<vq, vstage>>

\* reader.read() returns done: qs = built.filter(Boolean); setQuestions(qs)
ReadDone ==
  /\ vstage = "reading"
  /\ vq.ending = "close"
  /\ vres.wire = <<>>
  /\ vres' = [vres EXCEPT !.questions = SelectSeq(vres.built, IsFilled)]
  /\ vstage' = "set"
  /\ UNCHANGED vq

\* the server called controller.error(err): what was not delivered yet is
\* dropped and reader.read() rejects; catch (e) { setError(...) }
ReadRejects ==
  /\ vstage = "reading"
  /\ vq.ending = "error"
  /\ vstage' = "failed"
  /\ UNCHANGED <<vq, vres>>

NextClient ==
  \/ (Read /\ UNCHANGED sessionVars)
  \/ (ReadDone /\ UNCHANGED sessionVars)
  \/ (ReadRejects /\ UNCHANGED sessionVars)

SpecClient == InitClient /\ [][NextClient]_vars

\* --------------------------------------------------------- framer harness
\* one text of the model delivered to the framing loop in chunks cut anywhere
\* longest text enumerated for the framer
MaxTextLen == 4

TextAlphabet == {"{", "}", "\n", " "}

RECURSIVE TextsUpTo(_)
TextsUpTo(n) ==
  IF n = 0 THEN {<<>>}
  ELSE LET shorter == TextsUpTo(n - 1) IN
       shorter \cup {Append(t, c) : t \in {u \in shorter : Len(u) = n - 1},
                                    c \in TextAlphabet}

\* vq.text is the whole text, vq.left what the stream has not delivered yet;
\* vres is the sequence of non-blank lines handed to JSON.parse so far
InitFramer ==
  /\ pc = "off"
  /\ count = 0
  /\ topic = <<>>
  /\ emitted = 0
  /\ buffer = <<>>
  /\ chunks = 0
  /\ existingQuestions = {}
  /\ events = <<>>
  /\ thrown = {}
  /\ calls = <<>>
  /\ vq \in {[text |-> t, left |-> t] : t \in TextsUpTo(MaxTextLen)}
  /\ vstage = "feeding"
  /\ vres = <<>>

\* one iteration of for await (const chunk of result.stream): the chunk is the
\* next n characters of the text
FeedChunk ==
  /\ vstage = "feeding"
  /\ vq.left # <<>>
  /\ \E n \in 1..Len(vq.left) :
       LET f == Framed(buffer, SubSeq(vq.left, 1, n)) IN
       /\ buffer' = f.rest
       /\ vres' = vres \o f.lines
       /\ vq' = [vq EXCEPT !.left = SubSeq(vq.left, n + 1, Len(vq.left))]
  /\ chunks' = chunks + 1
  /\ UNCHANGED <<vstage, pc, count, topic, emitted, existingQuestions, events, thrown,
                 calls>>

\* the stream is exhausted
FeedEnd ==
  /\ vstage = "feeding"
  /\ vq.left = <<>>
  /\ vstage' = "fed"
  /\ UNCHANGED <<vq, vres, sessionVars>>

NextFramer ==
  \/ FeedChunk
  \/ FeedEnd

SpecFramer == InitFramer /\ [][NextFramer]_vars

\* ================================================================= claims
IsQuestion(e) == e.type = "question"
Questions == SelectSeq(events, IsQuestion)
HasType(t) == \E i \in 1..Len(events) : events[i].type = t
HasStage(st) == \E i \in 1..Len(events) : events[i].type = "server" /\ events[i].stage = st
Ended == pc \in {"closed", "errored"}
IndicesInOrder == \A j \in 1..Len(Questions) : Questions[j].index = j
RecoveryTiers == {"bulk1", "bulk2", "bulk3", "single", "variant", "synthetic"}
PrimaryAccepted ==
  Cardinality({j \in 1..Len(Questions) : Questions[j].tier \in {"primary", "flush"}})

\* an integer x compared with a number c: x <= c, x = c, x >= c
AtMost(x, c) == x * c.d <= c.n
Exactly(x, c) == x * c.d = c.n
AtLeast(x, c) == x * c.d >= c.n

\* C1: a session emits exactly count question events, indexed 1..count in order:
\* never more than count at any time, and exactly count once the session has
\* ended. Stated here for sessions in which no upstream call threw.
C1_ExactlyCountQuestions ==
  thrown = {} =>
    /\ AtMost(Len(Questions), count)
    /\ (Ended => Exactly(Len(Questions), count) /\ IndicesInOrder)

\* C2: whenever the terminal done event has been emitted, at least count
\* question events were emitted before it, on the streaming path and on the
\* in-route fallback path alike.
C2_DoneImpliesCount ==
  HasType("done") => AtLeast(Len(Questions), count)

\* C3: every unit carried by a question event, as delivered (after the
\* sanitizer), satisfies the validator's schema.
C3_DeliveredUnitsValid ==
  \A j \in 1..Len(Questions) : isValidQuestion(Questions[j].question)

\* C4: no two question events of one session carry stems with the same
\* normalized fingerprint, whatever tiers produced them. Stated here for the
\* sessions that have emitted no more than count questions.
C4_NoDuplicateFingerprint ==
  \A i, j \in 1..Len(Questions) :
    (i < j /\ AtMost(j, count)) => normalize(Questions[i].question.question.s)
               # normalize(Questions[j].question.question.s)

\* C5: an upstream call that throws after the primary stream was opened (while
\* iterating the stream, in a bulk top-up call or in a single-item call) does
\* not abort the session: no error event is emitted, and the session ends with
\* count question events followed by done.
C5_ThrowDoesNotAbort ==
  (thrown # {} /\ thrown \subseteq {"streaming", "bulk1", "bulk2", "bulk3",
                                    "single", "variant"})
    => /\ ~HasType("error")
       /\ pc # "errored"
       /\ (pc = "closed" => AtLeast(Len(Questions), count)
                            /\ events[Len(events)].type = "done")

\* C6: done is emitted at most once and nothing follows it (in every reachable
\* state a done event is the last event), and no session holds both a done and
\* an error event.
C6_DoneIsLastAndExclusive ==
  /\ \A i \in 1..Len(events) : events[i].type = "done" => i = Len(events)
  /\ ~(HasType("done") /\ HasType("error"))
  /\ (pc = "closed" => HasType("done"))

C6_Witness ==
  /\ pc = "closed"
  /\ events[Len(events)].type = "done"
  /\ \E j \in 1..Len(Questions) : Questions[j].tier = "synthetic"
  /\ \E j \in 1..Len(Questions) : Questions[j].tier = "primary"

\* C7: every question event with index k is immediately followed by a progress
\* event whose completed value is at least k.
C7_QuestionThenProgress ==
  \A i \in 1..Len(events) :
    events[i].type = "question" =>
      /\ i < Len(events)
      /\ events[i + 1].type = "progress"
      /\ events[i + 1].completed >= events[i].index

C7_Witness ==
  /\ Len(Questions) = 2
  /\ Questions[1].tier = "flush"
  /\ Questions[2].tier = "bulk2"
  /\ events[Len(events)].type = "done"

\* the primary stage (stream and trailing flush) of a streamed session ended
\* with fewer than count accepted units
PrimaryShort == HasStage("stream-open") /\ HasStage("fallback-topup")

C8_Final ==
  (PrimaryShort /\ thrown = {} /\ pc = "closed") =>
    /\ Exactly(Len(Questions), count)
    /\ IndicesInOrder
    /\ \A j \in 1..Len(Questions) :
         j > PrimaryAccepted => Questions[j].tier \in RecoveryTiers
    /\ Cardinality({i \in 1..Len(events) : events[i].type = "done"}) = 1
    /\ events[Len(events)].type = "done"

\* the iterations while (emitted < count) still has to run: count - emitted,
\* rounded up
SlotsLeft == (count.n - emitted * count.d + count.d - 1) \div count.d

\* an upper bound on the steps a session can still take: every await is passed
\* at most once, except the chunk await (at most MaxChunks times) and the two
\* awaits of single-item recovery (once per missing slot each)
Rank ==
  CASE pc = "init" -> 2 * CountCap + MaxChunks + 6
    [] pc = "awaitStream" -> 2 * CountCap + MaxChunks + 5
    [] pc = "streaming" -> 2 * CountCap + 4 + (MaxChunks - chunks)
    [] pc = "bulk1" -> 2 * CountCap + 3
    [] pc = "bulk2" -> 2 * CountCap + 2
    [] pc = "bulk3" -> 2 * CountCap + 1
    [] pc = "single" -> 2 * SlotsLeft
    [] pc = "variant" -> 2 * SlotsLeft - 1
    [] pc = "fallback" -> 2
    [] pc = "fallbackTopup" -> 1
    [] OTHER -> 0

\* C8: when the primary stage ends with k < count accepted units and no
\* upstream call throws, the session terminates, whatever the later calls
\* return, with exactly count question events, units k+1..count coming from
\* bulk top-up, single-item recovery or the synthetic filler, and exactly one
\* done event, which is last. Termination: every step lowers Rank, which is
\* never negative, and a session ends in error only after an upstream throw.
C8_ShortPrimaryCompletes ==
  /\ [](C8_Final)
  /\ [][Rank' < Rank /\ Rank' >= 0]_vars
  /\ [](pc = "errored" => thrown # {})

\* C9: in every prefix of a session the question events carry the indices
\* 1, 2, ..., k in that order, across all tiers.
C9_IndicesSequential == IndicesInOrder

C9_Witness ==
  /\ Len(Questions) >= 2
  /\ Questions[1].tier = "bulk1"
  /\ Questions[2].tier = "variant"

\* what the claim requires of a candidate, field by field
StemOk(q) == IsString(q.question) /\ Len(trim(q.question.s)) >= 5
OptionsOk(q) ==
  /\ q.multipleChoiceOptions.k = "arr"
  /\ Len(q.multipleChoiceOptions.items) = 4
  /\ \A i \in 1..4 : /\ IsString(q.multipleChoiceOptions.items[i])
                     /\ trim(q.multipleChoiceOptions.items[i].s) # <<>>
AnswerOk(q) ==
  IsString(q.correctAnswer) /\ q.correctAnswer.s \in {<<"A">>, <<"B">>, <<"C">>, <<"D">>}
NonEmptyString(v) == IsString(v) /\ trim(v.s) # <<>>
ExplanationsOk(q) ==
  /\ q.incorrectExplanations.k = "obj"
  /\ NonEmptyString(q.incorrectExplanations.A)
  /\ NonEmptyString(q.incorrectExplanations.B)
  /\ NonEmptyString(q.incorrectExplanations.C)
  /\ NonEmptyString(q.incorrectExplanations.D)
CorrectExplanationOk(q) == NonEmptyString(q.correctExplanation)

\* C10: isValidQuestion accepts a candidate if and only if the stem has at
\* least 5 characters after trimming, options is an array of exactly 4 strings
\* that are non-empty after trimming, correctAnswer is one of A, B, C, D,
\* incorrectExplanations is an object with a non-empty trimmed string for each
\* of A..D and correctExplanation is a non-empty trimmed string.
C10_ValidatorIffSchema ==
  vstage = "checked" =>
    (vres <=> /\ vq.k = "obj"
              /\ StemOk(vq)
              /\ OptionsOk(vq)
              /\ AnswerOk(vq)
              /\ ExplanationsOk(vq)
              /\ CorrectExplanationOk(vq))

C10_Witness ==
  /\ vstage = "checked"
  /\ vres
  /\ Len(trim(vq.question.s)) = 5
  /\ Len(vq.question.s) = 6

\* C11: the sanitizer is idempotent: sanitizeQuestion applied to a unit it has
\* already sanitized returns that unit unchanged (removing the whole word
\* "blank" in any letter case, collapsing whitespace runs of two or more and
\* trimming, on the stem and on each option, reaches a fixed point in one pass).
C11_SanitizerIdempotent ==
  vstage = "twice" => vres[2] = vres[1]

C11_Witness ==
  /\ vstage = "twice"
  /\ IsString(vq.question)
  /\ \E i \in 1..Len(vq.question.s) : BlankAt(vq.question.s, i)
  /\ \E i \in 1..Len(vq.question.s) : IsSpace(vq.question.s[i])
  /\ vres[1].question.s # <<>>
  /\ vres[1] # vq

\* the part of the text the stream has delivered so far
Delivered == SubSeq(vq.text, 1, Len(vq.text) - Len(vq.left))

\* C12: line framing does not depend on chunk boundaries: however the text is
\* cut into chunks, after every chunk the non-blank candidate lines processed
\* so far and the remainder kept in the buffer are those of the delivered text
\* framed as one chunk; no candidate is duplicated, dropped or split in two.
C12_FramingIgnoresChunking ==
  vstage \in {"feeding", "fed"} =>
    /\ vres = FrameLines(Delivered).lines
    /\ buffer = FrameLines(Delivered).rest

C12_Witness ==
  /\ vstage = "fed"
  /\ vq.text = <<"{", "}", "\n", "{">>
  /\ chunks = 3
  /\ vres = << <<"{", "}">> >>
  /\ buffer = <<"{">>

\* the primary stream was read to its end (buffer keeps what the framing loop
\* left in it: nothing assigns it after the stream)
StreamEnded ==
  /\ HasStage("stream-open")
  /\ pc \notin {"streaming", "off"}
  /\ "streaming" \notin thrown

\* units the framing loop accepted from newline-terminated lines
LoopAccepted ==
  Cardinality({j \in 1..Len(Questions) : Questions[j].tier = "primary"})

\* a trailing piece went through parse, validate, sanitize and accept: its
\* sanitized unit was emitted, or the diagnostic of its failure was
TrailingExamined(piece) ==
  LET p == JSONparse(piece) IN
  IF ~p.ok THEN HasStage("parse-error-trailing")
  ELSE IF ~isValidQuestion(p.v) THEN HasStage("invalid-trailing")
  ELSE \E j \in 1..Len(Questions) :
         /\ Questions[j].tier = "flush"
         /\ Questions[j].question = sanitizeQuestion(p.v)

Accepted == vstage \in {"accepted", "calling", "responded"}

\* C14: for every request body the count the pipeline uses lies in [1,10]:
\* missing, non-numeric, zero, negative, fractional and over-10 values of count
\* all give an effective count inside that range.
C14_CountInRange ==
  Accepted => /\ count.n >= count.d
              /\ count.n <= CountCap * count.d

\* a field that is missing or blank
Blank(v) == ~IsString(v) \/ trim(v.s) = <<>>

\* the request was refused with this status before any upstream call and
\* before any stream event
Refused(status) ==
  /\ vstage = "rejected"
  /\ vres.status = status
  /\ vres.calls = 0
  /\ events = <<>>
  /\ pc = "off"

C16_FirstCallFailsBeforeStreaming ==
  ("awaitStream" \in thrown) => /\ events = <<>>
                                /\ vres.status # 200

\* C17: the non-streaming route answers either 200 with exactly count
\* questions, or an error with a status outside 200..299; never 200 with
\* fewer or more than count questions.
C17_JsonRouteExactCount ==
  (vstage = "responded" /\ vq.route = "json") =>
    \/ vres.status \notin 200..299
    \/ Len(vres.questions) * count.d = count.n

\* candidates one loop run discarded for the given reason
Discarded(why) == Cardinality({i \in 1..Len(vres) : vres[i].why = why})

InvalidStages == {"invalid", "invalid-trailing", "invalid-fallback"}

\* server events of one loop run that report a validator failure, and the
\* other server events (those that can report a parse failure)
InvalidDiagnostics ==
  Cardinality({i \in 1..Len(events) :
                 events[i].type = "server" /\ events[i].stage \in InvalidStages})
OtherDiagnostics ==
  Cardinality({i \in 1..Len(events) :
                 events[i].type = "server" /\ events[i].stage \notin InvalidStages})

\* C18: in every tier (primary loop, trailing flush, each bulk round,
\* single-item recovery) a non-blank candidate that fails JSON.parse gets a
\* diagnostic server event, is discarded, and the loop goes on: one run emits
\* as many parse diagnostics as it had candidates that failed to parse.
C18_ParseFailureDiagnosed ==
  vstage = "ran" => OtherDiagnostics = Discarded("parse")

\* C19: in every tier a candidate that parses but fails the validator gets a
\* diagnostic server event and changes nothing else: one run emits as many
\* invalid diagnostics as it had invalid candidates, and the accepted counter
\* moves only by the question events, each followed by its progress event.
C19_InvalidDiagnosed ==
  vstage = "ran" =>
    /\ InvalidDiagnostics = Discarded("invalid")
    /\ emitted - vq.em = Len(Questions)
    /\ Cardinality({i \in 1..Len(events) : events[i].type = "progress"}) = Len(Questions)

\* the text holds the word "blank" as a whole word, in any letter case
HasBlankWord(v) == IsString(v) /\ \E i \in 1..Len(v.s) : BlankAt(v.s, i)

\* C20: the sanitizer is applied to every unit before it is delivered, on every
\* path and tier: no stem and no option carried by a question event holds the
\* placeholder word "blank" as a whole word.
C20_NoBlankDelivered ==
  \A j \in 1..Len(Questions) :
    LET q == Questions[j].question IN
    /\ ~HasBlankWord(q.question)
    /\ \A i \in 1..Len(q.multipleChoiceOptions.items) :
         ~HasBlankWord(q.multipleChoiceOptions.items[i])

\* body.recentMistakes is an array that holds an item that is no string
HasNonStringMistake ==
  /\ vq.body.k = "obj"
  /\ vq.body.recentMistakes.k = "arr"
  /\ \E i \in 1..Len(vq.body.recentMistakes.items) :
       ~IsString(vq.body.recentMistakes.items[i])

\* C21: a request whose recentMistakes list holds a non-string item is an
\* input error: the request is refused (status 400) before any upstream call.
C21_NonStringMistakeRefused ==
  (vstage # "new" /\ vq.key /\ HasNonStringMistake) => Refused(400)

BulkKinds == {"bulk1", "bulk2", "bulk3"}
SingleKinds == {"single", "variant"}
KindsOfCalls == [i \in 1..Len(calls) |-> calls[i].kind]

\* the call site that must precede a call of this kind
Before(kind) ==
  CASE kind = "bulk1" -> {"stream"}
    [] kind = "bulk2" -> {"bulk1"}
    [] kind = "bulk3" -> {"bulk2"}
    [] kind = "single" -> {"bulk3", "single", "variant"}
    [] kind = "variant" -> {"single"}
    [] kind \in {"fallback", "fallbackTopup"} -> {"stream", "fallback"}
    [] OTHER -> {}

\* C22: the recovery tiers run in a fixed order, each entered only while the
\* accepted count is below the target: bulk round 1 right after the primary
\* stream, round 2 after round 1, round 3 after round 2, single-item recovery
\* after round 3; a session makes at most three bulk calls (each round once),
\* and a bulk call asks for exactly count minus the units accepted so far, a
\* number of at least 1.
C22_TiersInOrder ==
  /\ \A i \in 1..Len(calls) :
       /\ (i = 1) <=> (calls[i].kind = "stream")
       /\ i > 1 => calls[i - 1].kind \in Before(calls[i].kind)
       /\ calls[i].kind \in BulkKinds \cup SingleKinds =>
            /\ Below(calls[i].slot - 1, count)
            /\ calls[i].asked.n >= calls[i].asked.d
       /\ calls[i].kind \in BulkKinds =>
            calls[i].asked = Minus(count, calls[i].slot - 1)
       /\ (calls[i].open /\ calls[i].kind \in BulkKinds \cup SingleKinds) =>
            /\ Below(Len(Questions), count)
            /\ calls[i].slot = Len(Questions) + 1
  /\ \A k \in BulkKinds : Cardinality({i \in 1..Len(calls) : calls[i].kind = k}) <= 1

\* the positions in the call history of the calls of one kind
CallsOf(kind) == {i \in 1..Len(calls) : calls[i].kind = kind}

\* the accepted count when single-item recovery was entered
EntryAccepted == calls[CHOOSE i \in CallsOf("single") : \A j \in CallsOf("single") : i <= j].slot - 1

\* the iterations of the single-item loop begun so far, one per first attempt
Iterations == Cardinality(CallsOf("single"))

C23_Loop ==
  /\ \A i \in CallsOf("single") \cup CallsOf("variant") :
       /\ calls[i].slot > EntryAccepted
       /\ Below(calls[i].slot - 1, count)
       /\ \A j \in CallsOf(calls[i].kind) : calls[j].slot = calls[i].slot => j = i
  /\ pc \in SingleKinds =>
       /\ emitted = EntryAccepted + Iterations - 1
       /\ Len(Questions) = emitted
  /\ (pc = "closed" /\ Iterations > 0) =>
       /\ Exactly(Iterations + EntryAccepted, count)
       /\ Exactly(emitted, count)
       /\ Exactly(Len(Questions), count)

C23_Step ==
  pc \in SingleKinds =>
    /\ Rank' < Rank
    /\ Rank' >= 0
    /\ pc' \in SingleKinds \cup {"closed"}
    /\ (pc' = "variant" => pc = "single" /\ emitted' = emitted)
    /\ (pc' # "variant" => emitted' = emitted + 1)

\* C23: an iteration of the single-item loop issues at most two upstream calls
\* (one first attempt, at most one variant retry) and raises the accepted count
\* by exactly one, so the loop runs exactly count minus the accepted count at
\* entry iterations, and it terminates: every step inside the loop lowers Rank,
\* which is never negative, and leaves the loop only by closing the session.
C23_SingleLoopTerminates ==
  /\ [](C23_Loop)
  /\ [][C23_Step]_vars

\* the question events produced by the synthetic filler
SyntheticSlots == {Questions[j].index : j \in {k \in 1..Len(Questions) : Questions[k].tier = "synthetic"}}

\* both model-backed attempts for this slot were issued
BothAttempted(slot) ==
  /\ \E i \in CallsOf("single") : calls[i].slot = slot
  /\ \E i \in CallsOf("variant") : calls[i].slot = slot

\* C24: the synthetic filler is emitted for a slot only after the first
\* attempt and the variant retry for that slot were both issued and failed;
\* no slot whose variant retry was not attempted is filled by the filler.
C24_FillerAfterBothAttempts ==
  \A slot \in SyntheticSlots : BothAttempted(slot)

\* the text holds a valid candidate whose fingerprint is already in the set
\* the iteration started with
Duplicate(text) ==
  LET p == SingleCandidate(text) IN
  /\ p.ok
  /\ isValidQuestion(p.v)
  /\ normalize(p.v.question.s) \in vq.seen

\* C25: in single-item recovery a valid candidate whose fingerprint is already
\* in the fingerprint set is not accepted: after a duplicate first attempt
\* nothing is emitted and the variant retry is issued, and after a duplicate
\* variant retry the slot is filled by the synthetic filler; a unit accepted
\* by either attempt is no duplicate.
C25_DuplicateNotAccepted ==
  (vq.loop.tier = "single" /\ vstage \in {"ran", "retried"}) =>
    /\ Duplicate(vq.lines[1]) =>
         /\ Len(calls) > 0
         /\ calls[1] = [kind |-> "variant", asked |-> NumberOf(1, 1), slot |-> vq.em + 1,
                        open |-> vstage = "ran"]
         /\ vstage = "ran" =>
              /\ pc = "variant"
              /\ events = <<>>
              /\ emitted = vq.em
              /\ existingQuestions = vq.seen
    /\ (vstage = "retried" /\ Duplicate(vq.retry)) =>
         /\ Len(Questions) = 1
         /\ Questions[1].tier = "synthetic"
         /\ Questions[1].index = vq.em + 1
         /\ emitted = vq.em + 1
         /\ existingQuestions = vq.seen
    /\ \A j \in 1..Len(Questions) :
         /\ Questions[j].tier = "single" => ~Duplicate(vq.lines[1])
         /\ Questions[j].tier = "variant" => ~Duplicate(vq.retry)

C25_Witness ==
  /\ vq.loop.tier = "single"
  /\ vstage = "retried"
  /\ Duplicate(vq.lines[1])
  /\ Duplicate(vq.retry)
  /\ vq.lines[1] # vq.retry
  /\ Questions[1].tier = "synthetic"

\* C27: the synthetic filler unit passes the validator for every topic and
\* every slot number, as built and after the sanitizer, and the fillers of two
\* different slots have different stems, as built and after the sanitizer.
C27_FillerValidAndDistinct ==
  vstage \in {"built", "sanitized"} =>
    /\ isValidQuestion(vres[1])
    /\ isValidQuestion(vres[2])
    /\ vres[1].question # vres[2].question

C27_Witness ==
  /\ vstage = "sanitized"
  /\ vq.slot = 1
  /\ vq.other = CountCap
  /\ \E i \in 1..Len(topic) : BlankAt(topic, i)
  /\ vres[1].question # synthetic(vq.slot, topic).question
  /\ isValidQuestion(vres[1])

\* every step of a session lowers Rank, which is never negative, and Rank is 0
\* exactly when the stream was closed by done or by error
C26_Terminates ==
  /\ [][Rank' < Rank /\ Rank' >= 0]_vars
  /\ []((Rank = 0) <=> (pc \in {"closed", "errored"}))

\* C26: every session terminates, and the upstream calls of a session number
\* at most 1 primary call, 3 bulk calls and 2 calls per missing slot, at most
\* 4 + 2 * count in all.
C26_TerminatesWithinCallBudget ==
  /\ C26_Terminates
  /\ []((Len(calls) - 4) * count.d <= 2 * count.n)

\* the upstream calls that are outstanding: issued and not yet settled
Outstanding == {i \in 1..Len(calls) : calls[i].open}

\* C28: at most one upstream call is outstanding at any time: every call is
\* awaited before the next one is issued, and no call is issued while the
\* primary stream is being read. A session that waits for the model has
\* exactly one outstanding call, the last one issued; an ended session none.
C28_OneCallOutstanding ==
  /\ Cardinality(Outstanding) <= 1
  /\ Outstanding \subseteq {Len(calls)}
  /\ pc \in {"closed", "errored"} => Outstanding = {}
  /\ pc \in {"awaitStream", "streaming"} =>
       Len(calls) = 1 /\ calls[1].kind = "stream" /\ calls[1].open
  /\ pc \in {"bulk1", "bulk2", "bulk3", "single", "variant", "fallback",
              "fallbackTopup"} =>
       Outstanding = {Len(calls)} /\ calls[Len(calls)].kind = pc

C28_Witness ==
  /\ pc = "variant"
  /\ Len(calls) = 6
  /\ Outstanding = {6}
  /\ emitted = 0

ProgressEvents == SelectSeq(events, LAMBDA e : e.type = "progress")

\* C30: every progress event carries the effective count as its total and a
\* completed value that does not exceed it, and the accepted counter never
\* exceeds count, also when the primary stream delivers more valid lines than
\* were requested.
C30_ProgressWithinTotal ==
  /\ \A i \in 1..Len(ProgressEvents) :
       /\ ProgressEvents[i].total = count
       /\ AtMost(ProgressEvents[i].completed, ProgressEvents[i].total)
  /\ AtMost(emitted, count)

\* what holds of the locals of a session that runs alone: the counter is the
\* number of its question events, which are indexed 1, 2, ... in order; every
\* progress event reports the counter as it was and the session's own count;
\* the buffer holds no complete line; the fingerprint set has one entry per
\* unit accepted by single-item recovery; at most one call is outstanding
AsAlone(s) ==
  LET qs == SelectSeq(s.events, IsQuestion) IN
  /\ s.emitted = Len(qs)
  /\ \A j \in 1..Len(qs) : qs[j].index = j
  /\ \A i \in 1..Len(s.events) :
       s.events[i].type = "progress" =>
         /\ s.events[i].total = s.count
         /\ i > 1
         /\ s.events[i - 1].type = "question"
         /\ s.events[i - 1].index = s.events[i].completed
  /\ \A i \in 1..Len(s.buffer) : s.buffer[i] # "\n"
  /\ Cardinality(s.existingQuestions)
       = Cardinality({j \in 1..Len(qs) : qs[j].tier \in SingleKinds})
  /\ Cardinality({i \in 1..Len(s.calls) : s.calls[i].open}) <= 1

\* a step of one request leaves the locals of the other as they were, and a
\* switch between the requests changes the locals of neither
C29_Step ==
  /\ vstage' = vstage => vq' = vq
  /\ vstage' # vstage => (vq' = Running /\ Running' = vq)

\* C29: two requests served concurrently do not affect each other: each
\* session has its own accepted counter, line buffer and fingerprint set, so
\* under every interleaving of their steps the locals of each session are as
\* they are when the session runs alone, and no step of one session changes
\* the locals of the other.
C29_SessionsIndependent ==
  /\ [](AsAlone(Running) /\ AsAlone(vq))
  /\ [][C29_Step]_vars

C29_Witness ==
  /\ vstage = "first"
  /\ existingQuestions # {}
  /\ emitted = 1
  /\ vq.pc = "streaming"
  /\ vq.emitted = 0
  /\ vq.buffer # <<>>

\* the tiers that run after the primary stream loop
LaterTiers == {"flush", "bulk1", "bulk2", "bulk3", "single", "variant", "synthetic"}

\* every unit of a later tier was accepted while the counter was below count
C31_AcceptedBelowCount ==
  \A j \in 1..Len(Questions) :
    Questions[j].tier \in LaterTiers => Below(Questions[j].index - 1, count)

\* C31: after the primary stream loop no tier accepts a unit once the accepted
\* counter has reached count (the trailing flush, the bulk rounds, single-item
\* recovery and the filler stop or are skipped at accepted >= count), so no
\* unit of these tiers brings the number of question events above count.
C31_LaterTiersStopAtCount ==
  /\ C31_AcceptedBelowCount
  /\ \A j \in 1..Len(Questions) :
       Questions[j].tier \in LaterTiers => AtMost(Questions[j].index, count)

\* the questions the server sent, in the order of their events
ServerQuestions ==
  LET qs == SelectSeq(vq.events, IsQuestion) IN [j \in 1..Len(qs) |-> qs[j].question]

\* the client read the response to its end, or gave up on it
ClientFinished == vstage \in {"set", "failed"}

\* what the client parsed so far is the beginning of what the server enqueued
GotIsPrefix ==
  /\ Len(vres.got) <= Len(vq.events)
  /\ \A i \in 1..Len(vres.got) : vres.got[i] = vq.events[i]

\* a response ended by controller.close() is received whole, however it is
\* cut into reads
C32_ClosedReceivedWhole ==
  /\ GotIsPrefix
  /\ vstage = "set" => /\ vres.got = vq.events
                        /\ vres.questions = ServerQuestions
                        /\ vres.buf = <<>>

\* C32: every event the server enqueues is one line ended by a newline, and
\* the client reader receives every event exactly once however the transport
\* cuts the text into reads: when the client is finished it has parsed the
\* events the server enqueued, in order, and its question list is the k
\* questions the server sent, in index order.
C32_ClientReceivesEveryEvent ==
  /\ \A i \in 1..Len(vq.events) : IndexOfNewline(Stringify(vq.events[i]), 1) = 0
  /\ GotIsPrefix
  /\ ClientFinished => /\ vres.got = vq.events
                        /\ vres.questions = ServerQuestions
                        /\ Len(vres.questions) = Len(SelectSeq(vq.events, IsQuestion))

====
